---- MODULE Spec2Model ----
(***************************************************************************)
(* The asset dependency resolver of laya-resource-parser: the core         *)
(* ResourceManager (parse / processFiles / processFile /                   *)
(* processReferences), the p-limit limiters it creates and the             *)
(* DownloadManager it drives.                                              *)
(*                                                                         *)
(* One step of the model is one turn of the JavaScript event loop: the     *)
(* completion of one I/O operation (directory walk, access, fetch, timer,  *)
(* file write, file read) together with all the synchronous code and       *)
(* promise continuations that run before the next I/O wait.  Which I/O     *)
(* completes next is the only nondeterminism of a run.                     *)
(*                                                                         *)
(* Event notification (emitEvent) is the EventSink collaborator of the     *)
(* resolver and is not part of this state machine: the resolver is         *)
(* modelled on the assumption that a notification returns to its caller.   *)
(***************************************************************************)
EXTENDS Integers, Sequences, FiniteSets, TLC

VARIABLES config, env, localFiles, dm, rm, tasks, call, logged, prev, returned,
          emitter

vars == <<config, env, localFiles, dm, rm, tasks, call, logged, prev, returned,
          emitter>>

(***************************************************************************)
(* Bounds of the model.                                                    *)
(***************************************************************************)
MaxConcurrency == 2
MaxDepthCfg == 2
MaxFaults == 1
MaxRetriesCfg == 1
MaxCalls == 2
MaxSecondCalls == 1
MaxGetResult == 1
MaxListeners == 2
MaxStack == 3
MaxPathLen == 4
MaxDownloads == 6
MaxRegistryCalls == 3

(***************************************************************************)
(* Program constants.                                                      *)
(***************************************************************************)
maxConcurrentDownloads == 5
DefaultMaxRetries == 3
DefaultRetryDelay == 1000
DefaultConcurrency == 5
DefaultMaxDepth == 10
MaxConcurrencyAllowed == 50

Paths == {"a", "b", "c", "d"}

(***************************************************************************)
(* The paths of the end-to-end scenarios, spelled as the program sees      *)
(* them.                                                                   *)
(***************************************************************************)
ScenarioFiles == {"top.ls", "child.lmat", "grand.ltc"}

ScenarioPaths == ScenarioFiles \cup {"http://cdn.example.com/x.png"}

(***************************************************************************)
(* File names with compound extensions and a name without a processor.     *)
(***************************************************************************)
CompoundPaths == {"top.ls", "child.lmat", "x.ltcb.ls", "x.lanit.ls", "pic.png"}

(***************************************************************************)
(* Entry files in two directories, the string values found in them, and    *)
(* those values resolved against the two directories.                      *)
(***************************************************************************)
ReferenceValues ==
  {"sub/child.lmat", "v1.0", "data:image/x.png;base64", "a/{id}.png", "grand"}

ReferencePaths ==
  {"scenes/top.ls", "ui/menu.ls", "scenes/sub/child.lmat", "ui/sub/child.lmat"}
    \cup ReferenceValues

AssetPaths == Paths \cup ScenarioPaths \cup CompoundPaths \cup ReferencePaths

Min(s) == CHOOSE x \in s : \A y \in s : x <= y

(***************************************************************************)
(* Op(v), with v evaluated once before Op is applied to it.                *)
(***************************************************************************)
Apply(Op(_), v) == CHOOSE r \in {Op(x) : x \in {v}} : TRUE

NoRefs == [p \in Paths |-> <<>>]

(***************************************************************************)
(* The asset trees of the model: the files found under the base directory  *)
(* (in walk order), the references the processor returns for each file,    *)
(* and the files for which the processor factory has no processor.  The    *)
(* names a, b and c end with a top-level extension, d does not.            *)
(***************************************************************************)
Trees ==
  { [files |-> <<"a">>,
     refs |-> [NoRefs EXCEPT !["a"] = <<"b">>, !["b"] = <<"a">>],
     binary |-> {}],
    [files |-> <<"a", "b">>,
     refs |-> [NoRefs EXCEPT !["a"] = <<"c">>, !["b"] = <<"c">>, !["c"] = <<"d">>],
     binary |-> {"d"}],
    [files |-> <<"a", "b", "d">>,
     refs |-> [NoRefs EXCEPT !["a"] = <<"c", "d">>],
     binary |-> {}],
    [files |-> <<"a">>,
     refs |-> [NoRefs EXCEPT !["a"] = <<"b", "b">>, !["b"] = <<"c">>, !["c"] = <<"d", "c">>],
     binary |-> {"d"}],
    [files |-> <<"a", "b", "c">>,
     refs |-> [NoRefs EXCEPT !["a"] = <<"c">>, !["c"] = <<"d">>],
     binary |-> {}],
    [files |-> <<>>,
     refs |-> NoRefs,
     binary |-> {}] }

SeqSet(s) == {s[i] : i \in 1..Len(s)}

(***************************************************************************)
(* Faults of the environment: a path whose every fetch is answered with    *)
(* HTTP 404, or a path whose content is not valid JSON.                    *)
(***************************************************************************)
FaultSets ==
  {f \in SUBSET (Paths \X {"404", "corrupt"}) : Cardinality(f) <= MaxFaults}

(***************************************************************************)
(* State after construction of the managers (constructor, field            *)
(* initialisers).                                                          *)
(***************************************************************************)
emptyResult ==
  [totalFiles |-> 0, successFiles |-> 0, failedFiles |-> 0,
   fileList |-> <<>>, topLevelFiles |-> <<>>, errors |-> <<>>]

newResourceManager ==
  [isProcessing |-> FALSE,
   abortController |-> "undefined",
   processedFiles |-> {},
   processingContexts |-> [p \in AssetPaths |-> 0],
   result |-> emptyResult]

newDownloadManager ==
  [cache |-> {}, downloadQueue |-> {}, activeDownloads |-> {}]

InitEnv(skip) ==
  \E tree \in Trees, n \in 1..MaxConcurrency, d \in 0..MaxDepthCfg,
     faults \in FaultSets, baseOK \in BOOLEAN :
   \E local \in {{}, SeqSet(tree.files) \ {"d"}, Paths} :
    /\ config = [concurrency |-> n, maxDepth |-> d,
                 skipProcessedFiles |-> skip, maxRetries |-> MaxRetriesCfg,
                 retryDelay |-> DefaultRetryDelay]
    /\ env = [baseOK |-> baseOK,
              files |-> tree.files,
              topLevelExt |-> Paths \ {"d"},
              refs |-> tree.refs,
              hasProcessor |-> Paths \ tree.binary,
              local0 |-> local,
              remoteOK |-> {p \in Paths : <<p, "404">> \notin faults},
              parseOK |-> {p \in Paths : <<p, "corrupt">> \notin faults}]
    /\ localFiles = local

(***************************************************************************)
(* ResourceManager.eventListeners, part_008 line 35, with what the model   *)
(* records of the last emitEvent call: the event type, the listener calls  *)
(* made (listener, event type delivered), the listener failures that were  *)
(* caught and logged, and what the call threw to its caller.               *)
(***************************************************************************)
EventTypes == {"file_started", "all", "*"}

newEmitter ==
  [eventListeners |-> [e \in EventTypes |-> <<>>],
   emitted |-> "none", calls |-> <<>>, caught |-> 0, thrown |-> "none"]

InitProgram ==
  /\ emitter = newEmitter
  /\ dm = newDownloadManager
  /\ rm = newResourceManager
  /\ tasks = <<>>
  /\ call = "idle"
  /\ logged = {}
  /\ prev = {}
  /\ returned = <<>>

Init == InitEnv(TRUE) /\ InitProgram

(***************************************************************************)
(* The part of the state that the synchronous code of the resolver         *)
(* changes, threaded through the operators below as one record.            *)
(***************************************************************************)
Now == [rm |-> rm, tasks |-> tasks, call |-> call, logged |-> logged]

(***************************************************************************)
(* What the callers of the manager have been handed, in order: the result  *)
(* objects returned by parse() and getResult() and the rejections of       *)
(* parse().  getResult returns { ...this.result }: the counts are copied,  *)
(* the arrays fileList, topLevelFiles and errors are the arrays of         *)
(* this.result itself.  shared names the arrays of a returned object that  *)
(* are still the arrays of this.result; result holds the counts, and the   *)
(* contents of the other arrays.                                           *)
(***************************************************************************)
Arrays == {"fileList", "topLevelFiles", "errors"}

resultCopy(op, result) ==
  [op |-> op, outcome |-> "resolved", code |-> "none",
   result |-> result, shared |-> Arrays]

rejection(op, code) ==
  [op |-> op, outcome |-> "rejected", code |-> code,
   result |-> emptyResult, shared |-> {}]

(***************************************************************************)
(* this.result.<array> = <new array>, for the arrays named: a returned     *)
(* object that held the old array keeps it, with its present contents.     *)
(***************************************************************************)
detachOne(r, arrays) ==
  LET gone == arrays \cap r.shared IN
  [r EXCEPT !.result.fileList = IF "fileList" \in gone THEN rm.result.fileList ELSE @,
            !.result.topLevelFiles = IF "topLevelFiles" \in gone THEN rm.result.topLevelFiles ELSE @,
            !.result.errors = IF "errors" \in gone THEN rm.result.errors ELSE @,
            !.shared = @ \ arrays]

detach(ret, arrays) == [i \in DOMAIN ret |-> detachOne(ret[i], arrays)]

CommitFrom(S, ret) ==
  /\ rm' = S.rm
  /\ tasks' = S.tasks
  /\ call' = S.call
  /\ logged' = S.logged
  /\ returned' = IF S.call = call THEN ret
                 ELSE IF S.call = "resolved"
                 THEN Append(ret, resultCopy("parse", S.rm.result))
                 ELSE IF S.call = "rejected"
                 THEN Append(ret, rejection("parse", "SETUP_ERROR"))
                 ELSE ret

Commit(S) == CommitFrom(S, returned)

(***************************************************************************)
(* A task is one function handed to a p-limit limiter.  parent = 0: the    *)
(* task was created by processFiles; parent = t: it was created by the     *)
(* processReferences call of task t, which awaits it.  limit names the     *)
(* limiter instance the task was handed to.  status is the status field of *)
(* the FileProcessingContext the task created ("none": no context).        *)
(* downloads and fetches count the calls the task has made of              *)
(* DownloadManager.downloadFile and of performDownload; events lists the   *)
(* types of the events the task has emitted for its path.                  *)
(***************************************************************************)
newTask(filePath, depth, parent, limit) ==
  [filePath |-> filePath, depth |-> depth, parent |-> parent, limit |-> limit,
   pc |-> "queued", status |-> "none", retryCount |-> 0, outcome |-> "pending",
   downloads |-> 0, fetches |-> 0, slept |-> <<>>, events |-> <<>>]

(***************************************************************************)
(* const limit = pLimit(this.config.concurrency): processFiles creates one *)
(* limiter (0), every processReferences call creates its own, named here   *)
(* after the task t that made the call.                                    *)
(***************************************************************************)
limiterOfFiles == 0

limiterOfReferences(t) == t

queuedOf(S, limit) ==
  {u \in DOMAIN S.tasks : S.tasks[u].limit = limit /\ S.tasks[u].pc = "queued"}

activeOf(S, limit) ==
  {u \in DOMAIN S.tasks : S.tasks[u].limit = limit /\ S.tasks[u].pc \notin {"queued", "done"}}

pendingOf_queuedOnly(S, parent) ==
  {u \in DOMAIN S.tasks : S.tasks[u].parent = parent /\ S.tasks[u].pc = "queued"}

pendingOf(S, parent) ==
  {u \in DOMAIN S.tasks : S.tasks[u].parent = parent /\ S.tasks[u].pc # "done"}

depthExceeded_oneDeeper(depth) == depth > config.maxDepth + 1

depthExceeded(depth) == depth > config.maxDepth

alreadyProcessed_ifSucceeded(S, filePath) ==
  /\ config.skipProcessedFiles
  /\ filePath \in S.rm.processedFiles
  /\ S.tasks[S.rm.processingContexts[filePath]].status = "success"

alreadyProcessed_onceSettled(S, filePath) ==
  /\ config.skipProcessedFiles
  /\ filePath \in S.rm.processedFiles
  /\ S.tasks[S.rm.processingContexts[filePath]].pc = "done"

alreadyProcessed(S, filePath) ==
  config.skipProcessedFiles /\ filePath \in S.rm.processedFiles

createContext_unmarked(S, t) ==
  LET filePath == S.tasks[t].filePath IN
  [S EXCEPT !.tasks[t].status = "processing",
            !.tasks[t].pc = "exists",
            !.tasks[t].events = Append(@, "file_started"),
            !.rm.processingContexts[filePath] = t,
            !.rm.result.fileList = Append(@, filePath)]

(***************************************************************************)
(* processFile, lines 182-198: the context is created, the path enters     *)
(* processedFiles and fileList and 'file_started' is emitted; the task     *)
(* then waits for downloadIfNeeded -> isLocalFileExists.                   *)
(***************************************************************************)
createContext(S, t) ==
  LET filePath == S.tasks[t].filePath IN
  [S EXCEPT !.tasks[t].status = "processing",
            !.tasks[t].pc = "exists",
            !.tasks[t].events = Append(@, "file_started"),
            !.rm.processingContexts[filePath] = t,
            !.rm.processedFiles = @ \cup {filePath},
            !.rm.result.fileList = Append(@, filePath)]

(***************************************************************************)
(* The catch blocks of the two task wrappers.                              *)
(***************************************************************************)
IsError(outcome) == outcome \notin {"ok", "skipped", "aborted"}

processFilesSettle_uncaught(S, filePath, outcome) ==
  IF outcome = "aborted" THEN S
  ELSE IF IsError(outcome)
  THEN [S EXCEPT !.call = "rejected",
                 !.rm.isProcessing = FALSE,
                 !.rm.abortController = "undefined"]
  ELSE [S EXCEPT !.rm.result.successFiles = @ + 1]

processFilesSettle_countedTwice(S, filePath, outcome) ==
  IF outcome = "aborted" THEN S
  ELSE IF IsError(outcome)
  THEN [S EXCEPT !.rm.result.failedFiles = @ + 1,
                 !.rm.result.successFiles = @ + 1,
                 !.rm.result.errors = Append(@, [filePath |-> filePath, code |-> outcome])]
  ELSE [S EXCEPT !.rm.result.successFiles = @ + 1]

processFilesSettle(S, filePath, outcome) ==
  IF outcome = "aborted" THEN S
  ELSE IF IsError(outcome)
  THEN [S EXCEPT !.rm.result.failedFiles = @ + 1,
                 !.rm.result.errors = Append(@, [filePath |-> filePath, code |-> outcome])]
  ELSE [S EXCEPT !.rm.result.successFiles = @ + 1]

processReferencesSettle(S, filePath, outcome) ==
  IF IsError(outcome)
  THEN [S EXCEPT !.logged = @ \cup {[filePath |-> filePath, code |-> outcome]}]
  ELSE S

(***************************************************************************)
(* parse, lines 100-111: processFiles has returned.                        *)
(***************************************************************************)
parseReturn(S) ==
  [S EXCEPT !.call = "resolved",
            !.rm.isProcessing = FALSE,
            !.rm.abortController = "undefined"]

parseThrow(S) ==
  [S EXCEPT !.call = "rejected",
            !.rm.isProcessing = FALSE,
            !.rm.abortController = "undefined"]

RECURSIVE Start(_, _), Finish(_, _, _), Admit(_, _)

(***************************************************************************)
(* The limiter runs task t: the wrapper of processFiles (lines 140-157) or *)
(* of processReferences (lines 243-252) calls processFile, which runs      *)
(* synchronously up to its first I/O wait.                                 *)
(***************************************************************************)
Start(state, t) ==
  LET run(S) ==
        LET tk == S.tasks[t] IN
        IF tk.parent = 0 /\ S.rm.abortController = "aborted"
        THEN Finish(S, t, "aborted")
        ELSE IF depthExceeded(tk.depth)
        THEN Finish(S, t, "MAX_DEPTH_EXCEEDED")
        ELSE IF alreadyProcessed(S, tk.filePath)
        THEN Finish(S, t, "skipped")
        ELSE createContext(S, t)
  IN Apply(run, state)

(***************************************************************************)
(* Task t has settled with the given outcome of processFile: its wrapper   *)
(* handles the outcome, the limiter starts the next queued task, and when  *)
(* the last task of a limiter has settled Promise.all resolves and the     *)
(* caller continues (processFile lines 224-227: 'file_completed' and       *)
(* return, or parse line 100).  The catch block of processFiles emits      *)
(* 'file_failed' (line 155), the one of processReferences emits nothing.   *)
(***************************************************************************)
settled(S, t, outcome) ==
  LET tk == S.tasks[t]
      S1 == [S EXCEPT !.tasks[t].pc = "done", !.tasks[t].outcome = outcome,
                      !.tasks[t].events =
                         IF tk.parent = 0 /\ IsError(outcome)
                         THEN Append(@, "file_failed") ELSE @]
  IN IF tk.parent = 0
     THEN processFilesSettle(S1, tk.filePath, outcome)
     ELSE processReferencesSettle(S1, tk.filePath, outcome)

Finish(state, t, outcome) ==
  LET next(S) ==
        LET tk == S.tasks[t] IN
        IF queuedOf(S, tk.limit) # {}
        THEN Start(S, Min(queuedOf(S, tk.limit)))
        ELSE IF pendingOf(S, tk.parent) = {}
        THEN IF tk.parent = 0 THEN parseReturn(S)
             ELSE Finish([S EXCEPT !.tasks[tk.parent].events =
                                      Append(@, "file_completed")],
                         tk.parent, "ok")
        ELSE S
  IN Apply(next, settled(state, t, outcome))

(***************************************************************************)
(* pLimit(concurrency): queued tasks are started in FIFO order while fewer *)
(* than concurrency tasks of the limiter are running.                      *)
(***************************************************************************)
hasCapacity(S, limit) == Cardinality(activeOf(S, limit)) < config.concurrency

Admit(state, limit) ==
  LET admit(S) ==
        IF hasCapacity(S, limit) /\ queuedOf(S, limit) # {}
        THEN Admit(Start(S, Min(queuedOf(S, limit))), limit)
        ELSE S
  IN Apply(admit, state)

(***************************************************************************)
(* tasks = paths.map(p => limit(...)); await Promise.all(tasks)            *)
(***************************************************************************)
RECURSIVE enqueue(_, _, _, _, _)
enqueue(S, paths, depth, parent, limit) ==
  IF paths = <<>> THEN S
  ELSE enqueue([S EXCEPT !.tasks = Append(@, newTask(Head(paths), depth, parent, limit))],
               Tail(paths), depth, parent, limit)

(***************************************************************************)
(* processFile, catch block lines 228-231.                                 *)
(***************************************************************************)
processFileThrow_marksParent(S, t, code) ==
  Finish([S EXCEPT !.tasks = [u \in DOMAIN S.tasks |->
                     IF u = t \/ u = S.tasks[t].parent
                     THEN [S.tasks[u] EXCEPT !.status = "failed"]
                     ELSE S.tasks[u]]], t, code)

processFileThrow(S, t, code) ==
  Finish([S EXCEPT !.tasks[t].status = "failed"], t, code)

(***************************************************************************)
(* processFile, lines 201-210, after downloadIfNeeded has returned.        *)
(***************************************************************************)
getProcessorForFile(filePath) ==
  IF filePath \in env.hasProcessor THEN "JsonProcessor" ELSE "null"

afterDownloadIfNeeded(S, t) ==
  IF getProcessorForFile(S.tasks[t].filePath) = "null"
  THEN Finish([S EXCEPT !.tasks[t].status = "success"], t, "ok")
  ELSE [S EXCEPT !.tasks[t].pc = "process"]

(***************************************************************************)
(* DownloadManager.createDownloadTask, lines 84-92: the slot check of      *)
(* waitForConcurrencySlot, then the first performDownload.                 *)
(***************************************************************************)
effectiveMaxRetries ==
  IF config.maxRetries = 0 THEN DefaultMaxRetries ELSE config.maxRetries

(***************************************************************************)
(* createDownloadTask, line 115: retryDelay = this.config.retryDelay ||    *)
(* 1000, and line 121: sleep(retryDelay * retryCount).                     *)
(***************************************************************************)
effectiveRetryDelay ==
  IF config.retryDelay = 0 THEN DefaultRetryDelay ELSE config.retryDelay

slotFree(d) == Cardinality(d.activeDownloads) < maxConcurrentDownloads

awaitingDownload(S, filePath) ==
  {u \in DOMAIN S.tasks : S.tasks[u].pc = "await" /\ S.tasks[u].filePath = filePath}

(***************************************************************************)
(* DownloadManager.downloadFile, lines 54-69, and the start of             *)
(* createDownloadTask: what the caller waits for next.  "save": the cache  *)
(* answers; "await": the promise of the download in flight is returned;    *)
(* "fetch": a download task is created and calls performDownload; "slot":  *)
(* a download task is created and sleeps in waitForConcurrencySlot.        *)
(***************************************************************************)
downloadFile_unshared(d, filePath) ==
  IF filePath \in d.cache THEN "save"
  ELSE IF slotFree(d) THEN "fetch"
  ELSE "slot"

downloadFile(d, filePath) ==
  IF filePath \in d.cache THEN "save"
  ELSE IF filePath \in d.downloadQueue THEN "await"
  ELSE IF slotFree(d) THEN "fetch"
  ELSE "slot"

RECURSIVE throwAll(_, _, _)
throwAll(state, ts, code) ==
  LET throw(S) ==
        IF ts = {} THEN S
        ELSE throwAll(processFileThrow(S, Min(ts), code), ts \ {Min(ts)}, code)
  IN Apply(throw, state)

(***************************************************************************)
(* ResourceManager.parse, lines 79-95: up to the directory walk.           *)
(***************************************************************************)
parse ==
  /\ call = "idle"
  /\ ~rm.isProcessing
  /\ rm' = [rm EXCEPT !.isProcessing = TRUE, !.abortController = "active"]
  /\ call' = "collecting"
  /\ UNCHANGED <<config, env, emitter, localFiles, dm, tasks, logged, prev, returned>>

isTopLevelFile(filePath) == filePath \in env.topLevelExt

(***************************************************************************)
(* The directory walk has finished: the rest of collectTopLevelFiles       *)
(* (lines 121-131), then processFiles (lines 137-160).                     *)
(***************************************************************************)
walkDirectoryDone ==
  /\ call = "collecting"
  /\ IF ~env.baseOK
     THEN Commit(parseThrow(Now))
     ELSE LET topLevelFiles == SelectSeq(env.files, isTopLevelFile)
              ret == detach(returned, {"topLevelFiles"})
              S1 == [Now EXCEPT !.rm.result.topLevelFiles = topLevelFiles,
                                !.rm.result.totalFiles = Len(topLevelFiles),
                                !.call = "processing"]
              S2 == enqueue(S1, topLevelFiles, 0, 0, limiterOfFiles)
          IN CommitFrom(IF topLevelFiles = <<>>
                        THEN parseReturn(S2)
                        ELSE Admit(S2, limiterOfFiles), ret)
  /\ UNCHANGED <<config, env, emitter, localFiles, dm, prev>>

(***************************************************************************)
(* isLocalFileExists has answered for task t: downloadIfNeeded (lines      *)
(* 218-224) and, when the file is missing, downloadFile (lines 54-69).     *)
(***************************************************************************)
accessDone(t) ==
  /\ t \in DOMAIN tasks
  /\ tasks[t].pc = "exists"
  /\ LET filePath == tasks[t].filePath IN
     IF filePath \in localFiles
     THEN /\ Commit(afterDownloadIfNeeded(Now, t))
          /\ dm' = dm
     ELSE LET to == downloadFile(dm, filePath) IN
          /\ Commit([Now EXCEPT !.tasks[t].pc = to,
                                !.tasks[t].downloads = @ + 1,
                                !.tasks[t].fetches = IF to = "fetch" THEN @ + 1 ELSE @])
          /\ dm' = IF to = "fetch"
                   THEN [dm EXCEPT !.downloadQueue = @ \cup {filePath},
                                   !.activeDownloads = @ \cup {filePath}]
                   ELSE IF to = "slot"
                   THEN [dm EXCEPT !.downloadQueue = @ \cup {filePath}]
                   ELSE dm
  /\ UNCHANGED <<config, env, emitter, localFiles, prev>>

(***************************************************************************)
(* performDownload of task t has settled: the retry loop of                *)
(* createDownloadTask (lines 94-123) and the rest of downloadFile (lines   *)
(* 71-78); tasks awaiting the same promise settle with it.                 *)
(***************************************************************************)
fetchDone(t) ==
  /\ t \in DOMAIN tasks
  /\ tasks[t].pc = "fetch"
  /\ LET filePath == tasks[t].filePath
         waiters == awaitingDownload(Now, filePath) IN
     IF filePath \in env.remoteOK
     THEN /\ Commit([Now EXCEPT !.tasks =
                       [u \in DOMAIN tasks |->
                          IF u = t \/ u \in waiters
                          THEN [tasks[u] EXCEPT !.pc = "save"]
                          ELSE tasks[u]]])
          /\ dm' = [dm EXCEPT !.cache = @ \cup {filePath},
                              !.downloadQueue = @ \ {filePath},
                              !.activeDownloads = @ \ {filePath}]
     ELSE IF tasks[t].retryCount + 1 > effectiveMaxRetries
     THEN /\ Commit(throwAll(Now, {t} \cup waiters, "DOWNLOAD_ERROR"))
          /\ dm' = [dm EXCEPT !.downloadQueue = @ \ {filePath},
                              !.activeDownloads = @ \ {filePath}]
     ELSE /\ Commit([Now EXCEPT !.tasks[t].pc = "backoff",
                                !.tasks[t].retryCount = @ + 1,
                                !.tasks[t].slept =
                                   Append(@, effectiveRetryDelay * (tasks[t].retryCount + 1))])
          /\ dm' = dm
  /\ UNCHANGED <<config, env, emitter, localFiles, prev>>

(***************************************************************************)
(* A sleep of the DownloadManager has elapsed for task t: the back-off     *)
(* before a retry (line 121) or the wait for a download slot (line 182).   *)
(***************************************************************************)
sleepDone(t) ==
  /\ t \in DOMAIN tasks
  /\ \/ /\ tasks[t].pc = "backoff"
        /\ Commit([Now EXCEPT !.tasks[t].pc = "fetch", !.tasks[t].fetches = @ + 1])
        /\ dm' = dm
     \/ /\ tasks[t].pc = "slot"
        /\ slotFree(dm)
        /\ Commit([Now EXCEPT !.tasks[t].pc = "fetch", !.tasks[t].fetches = @ + 1])
        /\ dm' = [dm EXCEPT !.activeDownloads = @ \cup {tasks[t].filePath}]
  /\ UNCHANGED <<config, env, emitter, localFiles, prev>>

(***************************************************************************)
(* saveToLocal (lines 229-246) has written the downloaded file of task t.  *)
(***************************************************************************)
saveToLocalDone(t) ==
  /\ t \in DOMAIN tasks
  /\ tasks[t].pc = "save"
  /\ localFiles' = localFiles \cup {tasks[t].filePath}
  /\ Commit(afterDownloadIfNeeded(Now, t))
  /\ UNCHANGED <<config, env, emitter, dm, prev>>

(***************************************************************************)
(* processor.process has returned for task t: processFile lines 212-227    *)
(* and processReferences lines 241-255.                                    *)
(***************************************************************************)
processDone(t) ==
  /\ t \in DOMAIN tasks
  /\ tasks[t].pc = "process"
  /\ LET filePath == tasks[t].filePath
         references == env.refs[filePath] IN
     IF filePath \in env.parseOK
     THEN LET S1 == [Now EXCEPT !.tasks[t].status = "success",
                                !.tasks[t].pc = "refs"]
              S2 == enqueue(S1, references, tasks[t].depth + 1, t,
                            limiterOfReferences(t))
          IN Commit(IF references = <<>>
                    THEN Finish([S2 EXCEPT !.tasks[t].events =
                                              Append(@, "file_completed")], t, "ok")
                    ELSE Admit(S2, limiterOfReferences(t)))
     ELSE Commit(processFileThrow(Now, t, "PARSE_ERROR"))
  /\ UNCHANGED <<config, env, emitter, localFiles, dm, prev>>

(***************************************************************************)
(* ResourceManager.abort, lines 370-376.                                   *)
(***************************************************************************)
abort ==
  /\ rm.abortController = "active"
  /\ rm' = [rm EXCEPT !.abortController = "aborted"]
  /\ UNCHANGED <<config, env, emitter, localFiles, dm, tasks, call, logged, prev, returned>>

Next ==
  \/ parse
  \/ walkDirectoryDone
  \/ \E t \in DOMAIN tasks : accessDone(t)
  \/ \E t \in DOMAIN tasks : fetchDone(t)
  \/ \E t \in DOMAIN tasks : sleepDone(t)
  \/ \E t \in DOMAIN tasks : saveToLocalDone(t)
  \/ \E t \in DOMAIN tasks : processDone(t)
  \/ abort

Spec == Init /\ [][Next]_vars

(***************************************************************************)
(* Fairness: every I/O operation that was started completes ("every        *)
(* download and processor call eventually returns").                       *)
(***************************************************************************)
IOCompletes ==
  \/ walkDirectoryDone
  \/ \E t \in DOMAIN tasks : accessDone(t)
  \/ \E t \in DOMAIN tasks : fetchDone(t)
  \/ \E t \in DOMAIN tasks : sleepDone(t)
  \/ \E t \in DOMAIN tasks : saveToLocalDone(t)
  \/ \E t \in DOMAIN tasks : processDone(t)

SpecLive == Init /\ [][Next]_vars /\ WF_vars(IOCompletes)

(***************************************************************************)
(* Vocabulary of the properties.                                           *)
(***************************************************************************)
NoDuplicates(s) == \A i, j \in 1..Len(s) : s[i] = s[j] => i = j

ErrorPaths == [i \in 1..Len(rm.result.errors) |-> rm.result.errors[i].filePath]

Resolved == call = "resolved"

NoEntrySkippedByAbort == \A t \in DOMAIN tasks : tasks[t].outcome # "aborted"

contextStatus(filePath) ==
  IF rm.processingContexts[filePath] = 0 THEN "none"
  ELSE tasks[rm.processingContexts[filePath]].status

Fetchable(p) == p \in env.local0 \/ p \in env.remoteOK

RECURSIVE Closure(_)
Closure(X) ==
  LET Y == X \cup UNION {SeqSet(env.refs[p]) : p \in X \cap env.hasProcessor}
  IN IF Y = X THEN X ELSE Closure(Y)

RECURSIVE LongestChain(_, _)
LongestChain(p, seen) ==
  LET next == IF p \in env.hasProcessor THEN SeqSet(env.refs[p]) \ seen ELSE {}
      lens == {1 + LongestChain(q, seen \cup {q}) : q \in next}
  IN IF next = {} THEN 0 ELSE CHOOSE m \in lens : \A k \in lens : k <= m

EntryFiles == {p \in SeqSet(env.files) : isTopLevelFile(p)}

DepthSuffices == \A e \in EntryFiles : LongestChain(e, {e}) <= config.maxDepth

RECURSIVE DeepestReference(_, _)
DeepestReference(p, seen) ==
  LET next == IF p \in env.hasProcessor THEN SeqSet(env.refs[p]) ELSE {}
      lens == {IF q \in seen THEN 1 ELSE 1 + DeepestReference(q, seen \cup {q}) : q \in next}
  IN IF next = {} THEN 0 ELSE CHOOSE m \in lens : \A k \in lens : k <= m

(***************************************************************************)
(* C1  Dedup: in every state of a parse() call each path occurs at most    *)
(* once in result.fileList and at most one task has created a context for  *)
(* it, however many tasks were given that path.                            *)
(***************************************************************************)
C1_Dedup ==
  /\ NoDuplicates(rm.result.fileList)
  /\ \A t, u \in DOMAIN tasks :
       (/\ tasks[t].filePath = tasks[u].filePath
        /\ tasks[t].status # "none"
        /\ tasks[u].status # "none") => t = u

C1_Witness ==
  \E t, u \in DOMAIN tasks :
    /\ tasks[t].filePath = tasks[u].filePath
    /\ tasks[t].parent # tasks[u].parent
    /\ tasks[t].status \in {"processing", "success"}
    /\ tasks[u].outcome = "skipped"
    /\ Cardinality({i \in 1..Len(rm.result.fileList) :
                       rm.result.fileList[i] = tasks[t].filePath}) = 1

(***************************************************************************)
(* C2  Cycle termination: a parse() call that was started settles, and     *)
(* when it resolves over a fault-free tree, with or without cycles, whose  *)
(* chains of distinct paths fit maxDepth, the file list holds exactly the  *)
(* paths reachable from the entry files, once each, and the result records *)
(* no failure; when the references that close a cycle fit maxDepth too, no *)
(* error is raised at all.                                                 *)
(***************************************************************************)
C2_ResultOfCycle ==
  (Resolved /\ NoEntrySkippedByAbort /\ DepthSuffices
     /\ env.remoteOK = Paths /\ env.parseOK = Paths)
  => /\ SeqSet(rm.result.fileList) = Closure(EntryFiles)
     /\ NoDuplicates(rm.result.fileList)
     /\ rm.result.errors = <<>>
     /\ rm.result.failedFiles = 0
     /\ (\A e \in EntryFiles : DeepestReference(e, {e}) <= config.maxDepth)
          => logged = {}

Unfetchable == {e \in EntryFiles : ~Fetchable(e)}

Independent(e) == e \notin Closure(EntryFiles \ {e})

C5_ResolvesAfterAllTasks ==
  Resolved => \A t \in DOMAIN tasks :
                /\ tasks[t].pc = "done"
                /\ tasks[t].status # "processing"

C5_Witness ==
  /\ Resolved
  /\ \E t \in DOMAIN tasks :
       /\ tasks[t].depth = 2
       /\ tasks[t].status = "success"

(***************************************************************************)
(* C6  Every failed path is recorded: when parse() resolves, every path    *)
(* whose context is 'failed' and every reference rejected by the depth     *)
(* check has an entry in result.errors, failedFiles is the length of       *)
(* result.errors, and failedFiles > 0 exactly when some path failed.       *)
(***************************************************************************)
FailedPaths ==
  {tasks[t].filePath : t \in {u \in DOMAIN tasks :
      tasks[u].status = "failed" \/ tasks[u].outcome = "MAX_DEPTH_EXCEEDED"}}

C6_EveryFailureRecorded ==
  (Resolved /\ NoEntrySkippedByAbort)
  => /\ FailedPaths \subseteq SeqSet(ErrorPaths)
     /\ rm.result.failedFiles = Len(rm.result.errors)
     /\ (rm.result.failedFiles > 0 <=> FailedPaths # {})

(***************************************************************************)
(* C7  Depth bound: a reference found beyond maxDepth gets no context, is  *)
(* not added to processedFiles or fileList by that discovery, has no       *)
(* references scheduled from it, and when parse() resolves the result      *)
(* holds exactly one MAX_DEPTH_EXCEEDED error for each such reference.     *)
(***************************************************************************)
DepthRejected == {t \in DOMAIN tasks : tasks[t].outcome = "MAX_DEPTH_EXCEEDED"}

C7_DepthBound ==
  /\ \A t \in DepthRejected :
       /\ tasks[t].status = "none"
       /\ tasks[t].depth = config.maxDepth + 1
       /\ \A u \in DOMAIN tasks : tasks[u].parent # t
  /\ Resolved =>
       \A p \in Paths :
         Cardinality({i \in 1..Len(rm.result.errors) :
                        rm.result.errors[i] = [filePath |-> p, code |-> "MAX_DEPTH_EXCEEDED"]})
         = Cardinality({t \in DepthRejected : tasks[t].filePath = p})

(***************************************************************************)
(* C8  Concurrency bound on fetches: the number of performDownload calls   *)
(* in flight never exceeds config.concurrency.                             *)
(***************************************************************************)
C8_FetchBound ==
  Cardinality({t \in DOMAIN tasks : tasks[t].pc = "fetch"}) <= config.concurrency

(***************************************************************************)
(* C9  One shared limiter: the number of processFile tasks that a limiter  *)
(* has started and that are at work (not merely awaiting their own         *)
(* references) never exceeds config.concurrency.                           *)
(***************************************************************************)
C9_SharedLimiterBound ==
  Cardinality({t \in DOMAIN tasks : tasks[t].pc \notin {"queued", "refs", "done"}})
    <= config.concurrency

(***************************************************************************)
(* A second, independent run: a fresh ResourceManager and DownloadManager  *)
(* are constructed over the same base tree, remote content and             *)
(* configuration, after the result of the first run has been noted.        *)
(***************************************************************************)
Summary ==
  [fileList |-> SeqSet(rm.result.fileList),
   successFiles |-> rm.result.successFiles,
   failedFiles |-> rm.result.failedFiles,
   errors |-> SeqSet(ErrorPaths)]

runAgain ==
  /\ Resolved
  /\ NoEntrySkippedByAbort
  /\ prev = {}
  /\ prev' = {Summary}
  /\ localFiles' = env.local0
  /\ dm' = newDownloadManager
  /\ rm' = newResourceManager
  /\ tasks' = <<>>
  /\ call' = "idle"
  /\ logged' = {}
  /\ returned' = <<>>
  /\ UNCHANGED <<config, env, emitter>>

SpecTwoRuns == Init /\ [][Next \/ runAgain]_vars

(***************************************************************************)
(* C10  Order independence: two runs of parse() over the same base tree,   *)
(* remote content and configuration end with the same set of paths in      *)
(* fileList, the same successFiles and failedFiles and the same set of     *)
(* paths in errors, whatever the order in which their I/O completed.       *)
(***************************************************************************)
C10_OrderIndependence ==
  (Resolved /\ NoEntrySkippedByAbort) => \A first \in prev : Summary = first

(***************************************************************************)
(* Calls of the DownloadManager made for a path during the parse.          *)
(***************************************************************************)
RECURSIVE SumFetches(_)
SumFetches(ts) ==
  IF ts = {} THEN 0
  ELSE LET t == Min(ts) IN tasks[t].fetches + SumFetches(ts \ {t})

Fetches(p) == SumFetches({t \in DOMAIN tasks : tasks[t].filePath = p})

Referrers(p) ==
  {t \in DOMAIN tasks : /\ tasks[t].status = "success"
                        /\ p \in SeqSet(env.refs[tasks[t].filePath])}

(***************************************************************************)
(* C11  Coalescing at resolver level: however many files that are being    *)
(* processed refer to a path, at most one download of the path is started  *)
(* and, when the remote serves it, at most one network fetch is made; when *)
(* parse() resolves, a visited path without local copy that the remote     *)
(* serves was fetched exactly once and every file referring to it has      *)
(* completed.                                                              *)
(***************************************************************************)
C11_Coalescing ==
  \A p \in Paths :
    /\ Cardinality({t \in DOMAIN tasks : /\ tasks[t].filePath = p
                                         /\ tasks[t].downloads > 0}) <= 1
    /\ p \in env.remoteOK => Fetches(p) <= 1
    /\ (/\ Resolved /\ NoEntrySkippedByAbort
        /\ p \notin env.local0 /\ p \in env.remoteOK
        /\ p \in SeqSet(rm.result.fileList))
       => /\ Fetches(p) = 1
          /\ \A t \in Referrers(p) : tasks[t].pc = "done" /\ tasks[t].outcome = "ok"

C11_Witness ==
  \E t, u \in DOMAIN tasks :
    /\ tasks[t].filePath = "c" /\ tasks[u].filePath = "c"
    /\ tasks[t].parent # tasks[u].parent
    /\ tasks[t].pc = "fetch" /\ tasks[t].fetches = 1
    /\ tasks[u].outcome = "skipped"
    /\ Referrers("c") = {tasks[t].parent, tasks[u].parent}

(***************************************************************************)
(* The resolver with skipProcessedFiles = false (the value of the built-in *)
(* 'test' environment): processFile runs for every reference, so several   *)
(* downloadFile calls for one path can be in progress together.            *)
(***************************************************************************)
InitNoSkip == InitEnv(FALSE) /\ InitProgram

SpecNoSkip == InitNoSkip /\ [][Next]_vars

DownloadTasks(p) ==
  {t \in DOMAIN tasks : tasks[t].filePath = p
                        /\ tasks[t].pc \in {"fetch", "backoff", "slot"}}

(***************************************************************************)
(* C12  At most one network request per path is outstanding at any time,   *)
(* at most one download task exists per path, and a downloadFile call that *)
(* arrives while the download of its path is in flight awaits that         *)
(* download: the path is in downloadQueue exactly while its download task  *)
(* exists.                                                                 *)
(***************************************************************************)
C12_OneRequestPerPath ==
  \A p \in Paths :
    /\ Cardinality({t \in DOMAIN tasks : /\ tasks[t].filePath = p
                                         /\ tasks[t].pc = "fetch"}) <= 1
    /\ Cardinality(DownloadTasks(p)) <= 1
    /\ p \in dm.downloadQueue <=> DownloadTasks(p) # {}
    /\ awaitingDownload(Now, p) # {} => DownloadTasks(p) # {}

C12_Witness ==
  \E t, u \in DOMAIN tasks :
    /\ t # u
    /\ tasks[t].filePath = tasks[u].filePath
    /\ tasks[t].pc = "fetch"
    /\ tasks[u].pc = "await"

(***************************************************************************)
(* Further calls on the same manager.                                      *)
(***************************************************************************)
Handed(op, outcome) ==
  {i \in DOMAIN returned : returned[i].op = op /\ returned[i].outcome = outcome}

(***************************************************************************)
(* The parse() calls that have settled after passing the guard of line 80, *)
(* and the parse() calls made while another call was in progress.          *)
(***************************************************************************)
Completed ==
  {i \in DOMAIN returned : /\ returned[i].op = "parse"
                           /\ returned[i].code \in {"none", "SETUP_ERROR"}
                           /\ returned[i].outcome # "started"}

SecondCalls ==
  {i \in DOMAIN returned : /\ returned[i].op = "parse"
                           /\ \/ returned[i].code = "PROCESSING_ERROR"
                              \/ returned[i].outcome = "started"}

InProgress == call \in {"collecting", "processing"}

Settled == call \in {"resolved", "rejected"}

(***************************************************************************)
(* parse, lines 80-85: if (this.isProcessing) throw ...                    *)
(***************************************************************************)
parseRejects_unlessAborted(r) == r.isProcessing /\ r.abortController # "aborted"

parseRejects(r) == r.isProcessing

(***************************************************************************)
(* parse() is called while an earlier call is in progress: lines 80-89.    *)
(* A call that passes the guard sets isProcessing and installs a new       *)
(* AbortController before it starts to walk the base directory.            *)
(***************************************************************************)
parseWhileProcessing ==
  /\ InProgress
  /\ Cardinality(SecondCalls) < MaxSecondCalls
  /\ IF parseRejects(rm)
     THEN /\ returned' = Append(returned, rejection("parse", "PROCESSING_ERROR"))
          /\ rm' = rm
     ELSE /\ returned' = Append(returned, [rejection("parse", "none") EXCEPT !.outcome = "started"])
          /\ rm' = [rm EXCEPT !.isProcessing = TRUE, !.abortController = "active"]
  /\ UNCHANGED <<config, env, emitter, localFiles, dm, tasks, call, logged, prev>>

(***************************************************************************)
(* parse() is called after the earlier call has settled: lines 79-95.      *)
(***************************************************************************)
parseAgain ==
  /\ Settled
  /\ ~parseRejects(rm)
  /\ Cardinality(Completed) < MaxCalls
  /\ rm' = [rm EXCEPT !.isProcessing = TRUE, !.abortController = "active"]
  /\ call' = "collecting"
  /\ UNCHANGED <<config, env, emitter, localFiles, dm, tasks, logged, prev, returned>>

(***************************************************************************)
(* Repeated calls are explored over the trees whose files are all valid    *)
(* JSON (downloads may still fail).                                        *)
(***************************************************************************)
InitCalls == Init /\ env.parseOK = Paths

SpecCalls == InitCalls /\ [][Next \/ parseWhileProcessing \/ parseAgain]_vars

Observed(r) ==
  [r.result EXCEPT
     !.fileList = IF "fileList" \in r.shared THEN rm.result.fileList ELSE @,
     !.topLevelFiles = IF "topLevelFiles" \in r.shared THEN rm.result.topLevelFiles ELSE @,
     !.errors = IF "errors" \in r.shared THEN rm.result.errors ELSE @]

(***************************************************************************)
(* C17  Each parse() call starts from an empty result: while a call is     *)
(* collecting the entry files the counts are 0 and the lists are empty,    *)
(* and the results returned by two calls on the same manager that no       *)
(* abort() cut short are equal.                                            *)
(***************************************************************************)
C17_StartsFromEmptyResult ==
  /\ call = "collecting" => rm.result = emptyResult
  /\ NoEntrySkippedByAbort =>
       \A i, j \in Handed("parse", "resolved") :
         returned[i].result = returned[j].result

(***************************************************************************)
(* ResourceManager.reset, lines 381-393.                                   *)
(***************************************************************************)
reset ==
  /\ rm' = [rm EXCEPT !.processedFiles = {},
                      !.processingContexts = [p \in AssetPaths |-> 0],
                      !.result = emptyResult,
                      !.isProcessing = FALSE]
  /\ returned' = detach(returned, Arrays)
  /\ UNCHANGED <<config, env, emitter, localFiles, dm, tasks, call, logged, prev>>

(***************************************************************************)
(* ResourceManager.getResult, lines 301-303, called by the holder of the   *)
(* manager at any time.                                                    *)
(***************************************************************************)
getResult ==
  /\ Cardinality(Handed("getResult", "resolved")) < MaxGetResult
  /\ returned' = Append(returned, resultCopy("getResult", rm.result))
  /\ UNCHANGED <<config, env, emitter, localFiles, dm, rm, tasks, call, logged, prev>>

(***************************************************************************)
(* The holder of the manager calls reset() between two parse() calls.      *)
(***************************************************************************)
resetWhenIdle == ~InProgress /\ reset

SpecLifecycle ==
  InitCalls /\ [][Next \/ parseAgain \/ resetWhenIdle \/ getResult]_vars

(***************************************************************************)
(* C18  A returned result object is frozen: no step of the manager changes *)
(* the counts or the contents of fileList, topLevelFiles or errors of an   *)
(* object that parse() or getResult() has returned.                        *)
(***************************************************************************)
C18_ReturnedResultFrozen ==
  [][\A i \in DOMAIN returned :
       returned[i].outcome = "resolved" => Observed(returned[i])' = Observed(returned[i])]_vars

(***************************************************************************)
(* FileProcessingContext.status, core.ts lines 59-70, as processFile       *)
(* assigns it: a context is created with 'processing' (line 187), set to   *)
(* 'success' at lines 206 and 213 and to 'failed' in the catch block       *)
(* (line 229).  A path without a context has status "none" in the model.   *)
(***************************************************************************)
StatusMoves ==
  {<<"none", "processing">>, <<"processing", "success">>, <<"processing", "failed">>}

statusBefore(t) == IF t \in DOMAIN tasks THEN tasks[t].status ELSE "none"

C20_NoAdmissionAfterAbort ==
  [][rm.abortController = "aborted"
       => /\ rm'.result.fileList = rm.result.fileList
          /\ rm'.processingContexts = rm.processingContexts
          /\ \A p \in dm'.downloadQueue \ dm.downloadQueue :
               rm.processingContexts[p] # 0]_vars

(***************************************************************************)
(* The files of the fallback scenario: a parsable file that is present     *)
(* locally with content that is not valid JSON, while the remote serves    *)
(* it.  processFile hands such a file to JsonProcessor.process             *)
(* (part_015 lines 447-483), which reads the local file once.              *)
(***************************************************************************)
(***************************************************************************)
(* C15  Fallback chain: a parsable file whose local copy is not valid JSON *)
(* and whose remote copy is available is fetched again and ends with       *)
(* status success, not failed.                                             *)
(***************************************************************************)
C15_FallbackChain ==
  LET CorruptLocally ==
        {p \in env.local0 \cap env.hasProcessor \cap env.remoteOK : p \notin env.parseOK}
  IN
  \A t \in DOMAIN tasks :
    (Resolved /\ tasks[t].filePath \in CorruptLocally /\ tasks[t].status # "none")
      => tasks[t].status = "success" /\ tasks[t].fetches > 0

(***************************************************************************)
(* String.prototype.startsWith, endsWith and includes.                     *)
(***************************************************************************)
startsWith(s, prefix) ==
  Len(s) >= Len(prefix) /\ SubSeq(s, 1, Len(prefix)) = prefix

endsWith(s, suffix) ==
  Len(s) >= Len(suffix) /\ SubSeq(s, Len(s) - Len(suffix) + 1, Len(s)) = suffix

includes(s, part) ==
  \E i \in 1..(Len(s) - Len(part) + 1) : SubSeq(s, i, i + Len(part) - 1) = part

(***************************************************************************)
(* looksLikeAssetPath, part_013 lines 1-12.                                *)
(***************************************************************************)
looksLikeAssetPath(value) ==
  IF value = "" THEN FALSE
  ELSE IF startsWith(value, "http") THEN FALSE
  ELSE IF startsWith(value, "data:") THEN FALSE
  ELSE IF ~includes(value, "/") THEN FALSE
  ELSE IF ~includes(value, ".") THEN FALSE
  ELSE IF includes(value, "{") \/ includes(value, "}") THEN FALSE
  ELSE TRUE

(***************************************************************************)
(* JsonProcessor.isResourcePath, part_015 lines 542-545.                   *)
(***************************************************************************)
isResourcePath_anyScheme(path) ==
  includes(path, ".") /\ ~startsWith(path, "//")

isResourcePath(path) ==
  includes(path, ".") /\ ~startsWith(path, "http") /\ ~startsWith(path, "//")

(***************************************************************************)
(* Parsed JSON data: a string, or an object (an array is an object whose   *)
(* keys are its indices) given by its entries in the order of              *)
(* Object.entries.                                                         *)
(***************************************************************************)
str(value) == [type |-> "string", value |-> value]

obj(entries) == [type |-> "object", entries |-> entries]

entry(key, value) == [key |-> key, value |-> value]

(***************************************************************************)
(* JsonProcessor.findReferences, part_015 lines 512-537: every string      *)
(* value, under any key and at any nesting, that isResourcePath accepts,   *)
(* in the order of the traversal.  The reference path is the value itself. *)
(***************************************************************************)
RECURSIVE traverse(_), traverseEntries(_)
traverse(data) ==
  IF data.type = "object" THEN traverseEntries(data.entries) ELSE <<>>

traverseEntries(entries) ==
  IF entries = <<>> THEN <<>>
  ELSE LET value == Head(entries).value
           found == IF value.type = "string"
                    THEN IF isResourcePath(value.value) THEN <<value.value>> ELSE <<>>
                    ELSE traverse(value)
       IN found \o traverseEntries(Tail(entries))

findReferences(data) == traverse(data)

(***************************************************************************)
(* The files of the end-to-end scenarios.  top.ls is                       *)
(* {"name": "child.lmat"}, or the same with the URL of an image next to    *)
(* it, or with the URL in a nested object; child.lmat is                   *)
(* {"name": "grand.ltc"}; grand.ltc is {"name": "grand"}.                  *)
(***************************************************************************)
Contents(top) ==
  [p \in ScenarioPaths |->
     IF p = "top.ls" THEN top
     ELSE IF p = "child.lmat" THEN obj(<<entry("name", str("grand.ltc"))>>)
     ELSE IF p = "grand.ltc" THEN obj(<<entry("name", str("grand"))>>)
     ELSE str("")]

(***************************************************************************)
(* DEFAULT_RESOURCE_CONFIG.topLevelHierarchyExtensions, part_009 line 514, *)
(* and the extensions registered for JsonProcessor, part_015 line 62.      *)
(***************************************************************************)
topLevelHierarchyExtensions == {".ls", ".lh"}

supportedExtensions == {".json", ".ls", ".lh", ".lmat", ".ltc"}

(***************************************************************************)
(* The end-to-end scenarios: the base directory holds top.ls, the remote   *)
(* serves child.lmat and grand.ltc and may serve top.ls.  The presence     *)
(* check may or may not see top.ls (it looks under the download            *)
(* directory), and the files that were downloaded may or may not be where  *)
(* the processor reads them.                                               *)
(***************************************************************************)
InitEndToEnd ==
  LET TopContents ==
        { obj(<<entry("name", str("child.lmat"))>>),
          obj(<<entry("name", str("child.lmat")),
                entry("icon", str("http://cdn.example.com/x.png"))>>),
          obj(<<entry("skin",
                      obj(<<entry("name", str("http://cdn.example.com/x.png"))>>)),
                entry("name", str("child.lmat"))>>) }
  IN
  \E n \in 1..MaxConcurrency, d \in 0..MaxDepthCfg, top \in TopContents :
  \E local \in {{}, {"top.ls"}},
     remote \in {{"child.lmat", "grand.ltc"}, ScenarioFiles},
     readable \in {{"top.ls"}, ScenarioFiles} :
    /\ config = [concurrency |-> n, maxDepth |-> d,
                 skipProcessedFiles |-> TRUE, maxRetries |-> MaxRetriesCfg,
                 retryDelay |-> DefaultRetryDelay]
    /\ env = [baseOK |-> TRUE,
              files |-> <<"top.ls">>,
              topLevelExt |-> {p \in ScenarioPaths :
                                \E e \in topLevelHierarchyExtensions : endsWith(p, e)},
              refs |-> [p \in ScenarioPaths |-> findReferences(Contents(top)[p])],
              hasProcessor |-> {p \in ScenarioPaths :
                                 \E e \in supportedExtensions : endsWith(p, e)},
              local0 |-> local,
              remoteOK |-> remote,
              parseOK |-> readable,
              content |-> Contents(top)]
    /\ localFiles = local
    /\ InitProgram

SpecEndToEnd == InitEndToEnd /\ [][Next]_vars

(***************************************************************************)
(* The string values of a file, at any nesting.                            *)
(***************************************************************************)
RECURSIVE stringsOf(_), stringsOfEntries(_)
stringsOf(data) ==
  IF data.type = "string" THEN {data.value} ELSE stringsOfEntries(data.entries)

stringsOfEntries(entries) ==
  IF entries = <<>> THEN {}
  ELSE stringsOf(Head(entries).value) \cup stringsOfEntries(Tail(entries))

(***************************************************************************)
(* C14  A string value that starts with "http" is excluded from reference  *)
(* extraction: it is no reference of the file that holds it, no task is    *)
(* scheduled for it, no context is created for it and it is not added to   *)
(* fileList.                                                               *)
(***************************************************************************)
C14_HttpExcluded ==
  \A v \in ScenarioPaths :
    startsWith(v, "http")
      => /\ ~isResourcePath(v) /\ ~looksLikeAssetPath(v)
         /\ \A p \in ScenarioPaths : v \notin SeqSet(env.refs[p])
         /\ \A t \in DOMAIN tasks : tasks[t].filePath # v
         /\ rm.processingContexts[v] = 0
         /\ v \notin SeqSet(rm.result.fileList)

C14_Witness ==
  /\ Resolved
  /\ "http://cdn.example.com/x.png" \in stringsOf(env.content["top.ls"])
  /\ contextStatus("top.ls") = "success"
  /\ rm.result.fileList = <<"top.ls", "child.lmat", "grand.ltc">>

(***************************************************************************)
(* C13  End to end: with top.ls in the base directory, child.lmat and      *)
(* grand.ltc served by the remote and a depth limit that admits depth 2,   *)
(* a parse() that is not aborted returns fileList = [top.ls, child.lmat,   *)
(* grand.ltc], successFiles = 3 and failedFiles = 0.                       *)
(***************************************************************************)
C13_EndToEnd ==
  (Resolved /\ NoEntrySkippedByAbort /\ config.maxDepth >= 2)
    => /\ rm.result.fileList = <<"top.ls", "child.lmat", "grand.ltc">>
       /\ rm.result.successFiles = 3
       /\ rm.result.failedFiles = 0

(***************************************************************************)
(* ResourceManager.on, lines 321-326.  A listener either returns or        *)
(* throws when it is called.                                               *)
(***************************************************************************)
on ==
  /\ LET Registered == Len(emitter.eventListeners["file_started"])
                         + Len(emitter.eventListeners["all"])
                         + Len(emitter.eventListeners["*"])
     IN /\ Registered < MaxListeners
        /\ \E eventType \in EventTypes, throws \in BOOLEAN :
             emitter' = [emitter EXCEPT
                           !.eventListeners[eventType] =
                              Append(@, [id |-> Registered + 1, throws |-> throws])]
  /\ UNCHANGED <<config, env, localFiles, dm, rm, tasks, call, logged, prev, returned>>

(***************************************************************************)
(* emitEvent, lines 352-359: the loop over the listeners of the event      *)
(* type, each call inside try/catch.                                       *)
(***************************************************************************)
callListener_uncaught(E, listener, eventType) ==
  IF E.thrown # "none" THEN E
  ELSE [E EXCEPT !.calls = Append(@, <<listener.id, eventType>>),
                 !.thrown = IF listener.throws THEN "ListenerError" ELSE @]

callListener(E, listener, eventType) ==
  IF E.thrown # "none" THEN E
  ELSE [E EXCEPT !.calls = Append(@, <<listener.id, eventType>>),
                 !.caught = IF listener.throws THEN @ + 1 ELSE @]

RECURSIVE callListeners(_, _, _)
callListeners(E, listeners, eventType) ==
  IF listeners = <<>> THEN E
  ELSE callListeners(callListener(E, Head(listeners), eventType),
                     Tail(listeners), eventType)

(***************************************************************************)
(* emitEvent, lines 345-365.  depth is the number of emitEvent frames on   *)
(* the call stack; a call that would exceed the stack throws RangeError,   *)
(* which nothing in emitEvent catches.                                     *)
(***************************************************************************)
RECURSIVE emitEvent(_, _, _)
emitEvent(E, eventType, depth) ==
  IF depth > MaxStack THEN [E EXCEPT !.thrown = "RangeError"]
  ELSE LET E1 == callListeners(E, E.eventListeners[eventType], eventType) IN
       IF E1.thrown # "none" THEN E1
       ELSE IF eventType # "*" THEN emitEvent(E1, "all", depth + 1)
       ELSE E1

emit ==
  /\ \E eventType \in EventTypes :
       emitter' = emitEvent([emitter EXCEPT !.emitted = eventType, !.calls = <<>>,
                                            !.caught = 0, !.thrown = "none"],
                            eventType, 1)
  /\ UNCHANGED <<config, env, localFiles, dm, rm, tasks, call, logged, prev, returned>>

(***************************************************************************)
(* The event interface of a manager that has been constructed and is not   *)
(* parsing.                                                                *)
(***************************************************************************)
InitEvents ==
  /\ Init
  /\ env.files = <<>> /\ env.baseOK /\ env.local0 = {}
  /\ env.remoteOK = Paths /\ env.parseOK = Paths
  /\ config.concurrency = 1 /\ config.maxDepth = 0

SpecEvents == InitEvents /\ [][on \/ emit]_vars

(***************************************************************************)
(* C21  A listener that throws does not affect resolution: its exception   *)
(* is caught inside emitEvent and never reaches the caller, the remaining  *)
(* listeners of the event are still called, in the order of registration,  *)
(* and emitEvent ends for its caller as it does when no listener is        *)
(* registered.  The first calls of emitEvent are those of its first frame. *)
(***************************************************************************)
C21_ListenerFailureIsolated ==
  [][emitter'.eventListeners = emitter.eventListeners
       => /\ emitter'.thrown # "ListenerError"
          /\ SubSeq(emitter'.calls, 1, Len(emitter'.eventListeners[emitter'.emitted]))
               = [i \in 1..Len(emitter.eventListeners[emitter'.emitted]) |->
                    <<emitter.eventListeners[emitter'.emitted][i].id,
                      emitter'.emitted>>]
          /\ emitter'.thrown = emitEvent(newEmitter, emitter'.emitted, 1).thrown]_vars

C21_Witness ==
  /\ emitter.emitted = "file_started"
  /\ Len(emitter.eventListeners["file_started"]) = 2
  /\ emitter.eventListeners["file_started"][1].throws
  /\ emitter.caught > 0
  /\ <<2, "file_started">> \in SeqSet(emitter.calls)

(***************************************************************************)
(* Values handed to the constructor: options (the cliArgs of the           *)
(* ConfigManager) and the configuration file found at a default location.  *)
(* A key is absent or holds a number, a boolean or a string.               *)
(***************************************************************************)
absent == [type |-> "absent"]

number(n) == [type |-> "number", value |-> n]

(***************************************************************************)
(* ConfigManager.convertValueType, part_009 lines 267-292, for a value     *)
(* that is not a string: the two regular expressions are tested on         *)
(* String(value), and a value they reject reaches value.toLowerCase(),     *)
(* which is not a function of a number or a boolean.                       *)
(***************************************************************************)
convertValueType(value) ==
  IF value.type = "number" /\ value.value >= 0
  THEN [thrown |-> "none", value |-> value]
  ELSE [thrown |-> "TypeError", value |-> value]

(***************************************************************************)
(* ConfigManager.normalizeCliArgs, lines 163-191: the keys of options that *)
(* are mapped into the configuration (options.config is not one of them).  *)
(***************************************************************************)
normalizeCliArgs(cliArgs) ==
  LET argMappings == {"concurrency", "debug"}
      present == {k \in argMappings : cliArgs[k].type # "absent"} IN
  IF \E k \in present : convertValueType(cliArgs[k]).thrown # "none"
  THEN [thrown |-> "TypeError", concurrency |-> absent]
  ELSE [thrown |-> "none", concurrency |-> cliArgs.concurrency]

(***************************************************************************)
(* ConfigManager.loadConfig, lines 69-108, and mergeConfigs, lines         *)
(* 622-639: a key of the file is overridden by the same key of the         *)
(* options, and a key that neither holds takes its default.                *)
(***************************************************************************)
loadConfig(cliArgs, file) ==
  LET normalized == normalizeCliArgs(cliArgs)
      valueOr(value, default) == IF value.type = "absent" THEN default ELSE value.value
  IN
  [thrown |-> normalized.thrown,
   resource |-> [concurrency |-> valueOr(normalized.concurrency, DefaultConcurrency),
                 maxDepth |-> valueOr(file.maxDepth, DefaultMaxDepth),
                 skipProcessedFiles |-> TRUE],
   downloader |-> [maxRetries |-> valueOr(file.maxRetries, DefaultMaxRetries),
                   retryDelay |-> DefaultRetryDelay]]

(***************************************************************************)
(* ConfigManager.validateResourceConfig, lines 331-363, and                *)
(* validateDownloaderConfig, lines 386-402: the errors found.              *)
(***************************************************************************)
validateResourceConfig_anyConcurrency(resource) ==
  IF resource.maxDepth < 0 THEN {"maxDepth"} ELSE {}

validateResourceConfig(resource) ==
  (IF resource.concurrency < 1 \/ resource.concurrency > MaxConcurrencyAllowed
   THEN {"concurrency"} ELSE {})
  \cup (IF resource.maxDepth < 0 THEN {"maxDepth"} ELSE {})

validateDownloaderConfig(downloader) ==
  IF downloader.maxRetries < 0 THEN {"maxRetries"} ELSE {}

(***************************************************************************)
(* new ConfigManager({ cliArgs: options, validate: true }), lines 32-64.   *)
(***************************************************************************)
newConfigManager(cliArgs, file) ==
  LET loaded == loadConfig(cliArgs, file)
      errors == validateResourceConfig(loaded.resource)
                  \cup validateDownloaderConfig(loaded.downloader)
  IN IF loaded.thrown # "none" THEN [thrown |-> loaded.thrown, config |-> loaded]
     ELSE IF errors # {} THEN [thrown |-> "CONFIG_ERROR", config |-> loaded]
     ELSE [thrown |-> "none", config |-> loaded]

(***************************************************************************)
(* ResourceManager.constructor, lines 50-74.  Before it has run there is   *)
(* no manager: call = "new" and config holds no configuration.             *)
(***************************************************************************)
constructor ==
  /\ call = "new"
  /\ LET made == newConfigManager(env.cliArgs, env.file) IN
     IF made.thrown # "none"
     THEN /\ call' = "failed"
          /\ returned' = Append(returned, rejection("constructor", made.thrown))
          /\ config' = config
     ELSE /\ call' = "idle"
          /\ returned' = returned
          /\ config' = [concurrency |-> made.config.resource.concurrency,
                        maxDepth |-> made.config.resource.maxDepth,
                        skipProcessedFiles |-> made.config.resource.skipProcessedFiles,
                        maxRetries |-> made.config.downloader.maxRetries,
                        retryDelay |-> made.config.downloader.retryDelay]
  /\ UNCHANGED <<env, emitter, localFiles, dm, rm, tasks, logged, prev>>

(***************************************************************************)
(* The options and configuration files of the model, valid and invalid.    *)
(***************************************************************************)
InitSetup ==
  \E tree \in Trees, faults \in FaultSets,
     cliArgs \in [concurrency : {absent, number(0 - 1), number(0), number(1),
                                 number(2), number(MaxConcurrencyAllowed + 1)},
                  debug : {absent, [type |-> "boolean", value |-> TRUE]}],
     file \in [maxDepth : {absent, number(0 - 1), number(1)},
               maxRetries : {number(0 - 1), number(MaxRetriesCfg)}] :
    /\ config = [loaded |-> FALSE]
    /\ env = [baseOK |-> TRUE,
              files |-> tree.files,
              topLevelExt |-> Paths \ {"d"},
              refs |-> tree.refs,
              hasProcessor |-> Paths \ tree.binary,
              local0 |-> SeqSet(tree.files) \ {"d"},
              remoteOK |-> {p \in Paths : <<p, "404">> \notin faults},
              parseOK |-> {p \in Paths : <<p, "corrupt">> \notin faults},
              cliArgs |-> cliArgs,
              file |-> file]
    /\ localFiles = SeqSet(tree.files) \ {"d"}
    /\ emitter = newEmitter
    /\ dm = newDownloadManager
    /\ rm = newResourceManager
    /\ tasks = <<>>
    /\ call = "new"
    /\ logged = {}
    /\ prev = {}
    /\ returned = <<>>

SpecSetup == InitSetup /\ [][constructor \/ Next]_vars

(***************************************************************************)
(* C22  A configuration error is fatal and is raised before any work       *)
(* begins: with a concurrency below 1, or another validated field that is  *)
(* invalid, the constructor throws, and then no directory is walked, no    *)
(* context is created, no event is emitted and no request is issued.       *)
(***************************************************************************)
C22_ConfigErrorBeforeWork ==
  LET InvalidConfiguration ==
        \/ /\ env.cliArgs.concurrency.type = "number"
           /\ \/ env.cliArgs.concurrency.value < 1
              \/ env.cliArgs.concurrency.value > MaxConcurrencyAllowed
        \/ env.file.maxDepth.type = "number" /\ env.file.maxDepth.value < 0
        \/ env.file.maxRetries.type = "number" /\ env.file.maxRetries.value < 0
      NoWorkDone ==
        /\ rm = newResourceManager
        /\ dm = newDownloadManager
        /\ tasks = <<>>
        /\ logged = {}
        /\ emitter.emitted = "none"
        /\ localFiles = env.local0
  IN /\ InvalidConfiguration => call \in {"new", "failed"}
     /\ call \in {"new", "failed"} => NoWorkDone

C22_Witness ==
  /\ call = "failed"
  /\ env.cliArgs.concurrency = number(0)
  /\ returned = <<rejection("constructor", "CONFIG_ERROR")>>

(***************************************************************************)
(* Downloader configurations with every retry count from 0 on and with     *)
(* retry delays 0 and 1; no file has a local copy, so that every visited   *)
(* path is fetched.                                                        *)
(***************************************************************************)
InitRetry ==
  \E tree \in Trees, n \in 1..MaxConcurrency, faults \in FaultSets,
     maxRetries \in 0..MaxRetriesCfg, retryDelay \in {0, 1} :
    /\ config = [concurrency |-> n, maxDepth |-> MaxDepthCfg,
                 skipProcessedFiles |-> TRUE, maxRetries |-> maxRetries,
                 retryDelay |-> retryDelay]
    /\ env = [baseOK |-> TRUE,
              files |-> tree.files,
              topLevelExt |-> Paths \ {"d"},
              refs |-> tree.refs,
              hasProcessor |-> Paths \ tree.binary,
              local0 |-> {},
              remoteOK |-> {p \in Paths : <<p, "404">> \notin faults},
              parseOK |-> {p \in Paths : <<p, "corrupt">> \notin faults}]
    /\ localFiles = {}
    /\ InitProgram

SpecRetry == InitRetry /\ [][Next]_vars

(***************************************************************************)
(* C23  Retry with backoff: the download task of a path whose every fetch  *)
(* fails makes exactly maxRetries + 1 attempts, sleeps retryDelay x k      *)
(* after the k-th failed attempt, k = 1..maxRetries, and then fails with   *)
(* the download error; also for maxRetries = 0 and retryDelay = 0.         *)
(***************************************************************************)
C23_RetryWithBackoff ==
  \A t \in DOMAIN tasks :
    /\ tasks[t].fetches <= config.maxRetries + 1
    /\ (tasks[t].outcome = "DOWNLOAD_ERROR" /\ tasks[t].fetches > 0)
         => /\ tasks[t].fetches = config.maxRetries + 1
            /\ tasks[t].slept = [k \in 1..config.maxRetries |-> config.retryDelay * k]

(***************************************************************************)
(* String.prototype.lastIndexOf(part, fromIndex) for a one-character part, *)
(* with positions counted from 1 (0: not found), and slice(from).          *)
(***************************************************************************)
lastIndexOf(s, part, fromIndex) ==
  LET found == {i \in 1..Len(s) : i <= fromIndex /\ SubSeq(s, i, i) = part} IN
  IF found = {} THEN 0 ELSE CHOOSE i \in found : \A j \in found : j <= i

slice(s, from) == SubSeq(s, from, Len(s))

(***************************************************************************)
(* The list of ProcessorFactory.isIgnoredExtension, part_015 line 362, and *)
(* getFileExtension, lines 335-354, for names written in lower case.       *)
(***************************************************************************)
ignoredExtensions == {".ltcb.ls", ".lanit.ls"}

getFileExtension_lastOnly(filePath) ==
  LET lastDotIndex == lastIndexOf(filePath, ".", Len(filePath)) IN
  IF lastDotIndex = 0 THEN "" ELSE slice(filePath, lastDotIndex)

getFileExtension(filePath) ==
  LET lastDotIndex == lastIndexOf(filePath, ".", Len(filePath)) IN
  IF lastDotIndex = 0 THEN ""
  ELSE LET extension == slice(filePath, lastDotIndex)
           secondLastDotIndex == lastIndexOf(filePath, ".", lastDotIndex - 1)
       IN IF secondLastDotIndex # 0
             /\ slice(filePath, secondLastDotIndex) \in ignoredExtensions
          THEN slice(filePath, secondLastDotIndex)
          ELSE extension

(***************************************************************************)
(* ProcessorFactory.getProcessorForFile, lines 302-318, with the built-in  *)
(* registrations (lines 59-83): the type of the processor, "null" for      *)
(* none.                                                                   *)
(***************************************************************************)
processorTypeFor(filePath) ==
  LET extension == getFileExtension(filePath)
      binaryExtensions == {".bin", ".dat", ".asset"}
      textExtensions == {".txt", ".md", ".log"}
  IN
  IF extension = "" THEN "null"
  ELSE IF extension \in supportedExtensions THEN "json"
  ELSE IF extension \in binaryExtensions THEN "binary"
  ELSE IF extension \in textExtensions THEN "text"
  ELSE "null"

(***************************************************************************)
(* ResourceManager.isTopLevelFile, part_008 lines 289-296, on the name.    *)
(***************************************************************************)
endsWithTopLevelExtension(filePath) ==
  \E extension \in topLevelHierarchyExtensions : endsWith(filePath, extension)

(***************************************************************************)
(* Base directories holding files with compound extensions.  Every file    *)
(* but pic.png holds JSON with a reference in it.                          *)
(***************************************************************************)
InitEntries ==
  LET CompoundContents ==
        [p \in CompoundPaths |->
           IF p = "top.ls"
           THEN obj(<<entry("name", str("pic.png")), entry("skin", str("x.lanit.ls"))>>)
           ELSE IF p = "pic.png" THEN str("")
           ELSE IF p = "child.lmat" THEN obj(<<entry("name", str("pic.png"))>>)
           ELSE obj(<<entry("name", str("child.lmat"))>>)]
      BaseDirectories ==
        { <<"top.ls", "x.ltcb.ls", "pic.png">>, <<"x.lanit.ls", "top.ls">>,
          <<"x.ltcb.ls">>, <<"top.ls">>, <<"child.lmat", "pic.png">> }
  IN
  \E files \in BaseDirectories, n \in 1..MaxConcurrency,
     local \in {{}, CompoundPaths}, missing \in {{}, {"pic.png"}, {"x.lanit.ls"}} :
    /\ config = [concurrency |-> n, maxDepth |-> MaxDepthCfg,
                 skipProcessedFiles |-> TRUE, maxRetries |-> MaxRetriesCfg,
                 retryDelay |-> DefaultRetryDelay]
    /\ env = [baseOK |-> TRUE,
              files |-> files,
              topLevelExt |-> {p \in CompoundPaths : endsWithTopLevelExtension(p)},
              refs |-> [p \in CompoundPaths |-> findReferences(CompoundContents[p])],
              hasProcessor |-> {p \in CompoundPaths : processorTypeFor(p) # "null"},
              local0 |-> local,
              remoteOK |-> CompoundPaths \ missing,
              parseOK |-> CompoundPaths \ {"pic.png"},
              content |-> CompoundContents]
    /\ localFiles = local
    /\ InitProgram

SpecEntries == InitEntries /\ [][Next]_vars

(***************************************************************************)
(* Paths that end with an ignored compound suffix.                         *)
(***************************************************************************)
endsWithIgnoredSuffix(filePath) ==
  \E suffix \in ignoredExtensions : endsWith(filePath, suffix)

(***************************************************************************)
(* C24  Entry enumeration: the entry files collected by parse() are        *)
(* exactly the files of the base directory that end with an entry          *)
(* extension and do not end with an ignored compound suffix.               *)
(***************************************************************************)
C24_EntryEnumeration ==
  call \in {"processing", "resolved"}
    => rm.result.topLevelFiles =
         SelectSeq(env.files,
                   LAMBDA f : endsWithTopLevelExtension(f) /\ ~endsWithIgnoredSuffix(f))

(***************************************************************************)
(* C26  A visited path that no processor handles, which includes every     *)
(* path with an ignored compound suffix, is never parsed and schedules no  *)
(* reference; once its processFile has returned normally it has status     *)
(* "success" and is part of fileList.                                      *)
(***************************************************************************)
C26_NotParsableIsSuccess ==
  \A t \in DOMAIN tasks :
    (endsWithIgnoredSuffix(tasks[t].filePath)
       \/ processorTypeFor(tasks[t].filePath) = "null")
      => /\ tasks[t].pc \notin {"process", "refs"}
         /\ \A u \in DOMAIN tasks : tasks[u].parent # t
         /\ (tasks[t].pc = "done" /\ tasks[t].outcome = "ok" /\ tasks[t].status # "none")
              => /\ tasks[t].status = "success"
                 /\ tasks[t].filePath \in SeqSet(rm.result.fileList)

C26_Witness ==
  \E t \in DOMAIN tasks :
    /\ tasks[t].filePath = "x.ltcb.ls"
    /\ env.refs["x.ltcb.ls"] # <<>>
    /\ tasks[t].pc = "done"
    /\ tasks[t].status = "success"
    /\ tasks[t].downloads = 1
    /\ "x.ltcb.ls" \in SeqSet(rm.result.fileList)
    /\ call = "resolved"

(***************************************************************************)
(* path.join of a directory and a relative path without ".." segments.     *)
(* process.cwd() is "/cwd".                                                *)
(***************************************************************************)
join(directory, filePath) ==
  IF directory = "." THEN filePath ELSE directory \o "/" \o filePath

cwd == "/cwd"

(***************************************************************************)
(* DownloadManager.getLocalFilePath, types.ts lines 209-212: the location  *)
(* isLocalFileExists tests and saveToLocal writes.                         *)
(***************************************************************************)
getLocalFilePath(filePath) == join(join(cwd, "downloads"), filePath)

(***************************************************************************)
(* JsonProcessor.process, part_015 line 453: readFile(filePath) resolves   *)
(* the relative path against the working directory.                        *)
(***************************************************************************)
readFileLocation(filePath) == join(cwd, filePath)

(***************************************************************************)
(* The base directory is a directory of its own or the downloads           *)
(* directory; walkDirectory lists the files under it by their path         *)
(* relative to it.  File a refers to b.                                    *)
(***************************************************************************)
InitLocations ==
  LET Bases == {"/base", join(cwd, "downloads")}
      LocatedPaths == {"a", "b"}
      Locations ==
        {join(directory, p) : directory \in Bases \cup {cwd}, p \in LocatedPaths}
      walkDirectory(base, fs) ==
        (IF join(base, "a") \in fs THEN <<"a">> ELSE <<>>)
          \o (IF join(base, "b") \in fs THEN <<"b">> ELSE <<>>)
  IN
  \E base \in Bases, fs \in SUBSET Locations, n \in 1..MaxConcurrency,
     remoteOK \in {{"a"}, {"a", "b"}} :
    /\ config = [concurrency |-> n, maxDepth |-> MaxDepthCfg,
                 skipProcessedFiles |-> TRUE, maxRetries |-> MaxRetriesCfg,
                 retryDelay |-> DefaultRetryDelay]
    /\ env = [baseOK |-> TRUE,
              files |-> walkDirectory(base, fs),
              topLevelExt |-> {"a"},
              refs |-> [NoRefs EXCEPT !["a"] = <<"b">>],
              hasProcessor |-> LocatedPaths,
              local0 |-> {p \in LocatedPaths : getLocalFilePath(p) \in fs},
              remoteOK |-> remoteOK,
              parseOK |-> {p \in LocatedPaths : readFileLocation(p) \in fs},
              base |-> base,
              fs |-> fs]
    /\ localFiles = {p \in LocatedPaths : getLocalFilePath(p) \in fs}
    /\ InitProgram

SpecLocations == InitLocations /\ [][Next]_vars

(***************************************************************************)
(* C25  Local presence check: a path is fetched from the network only if   *)
(* it has no local copy under the base directory, so an entry file is      *)
(* never fetched; and a file that was downloaded and stored is read by the *)
(* parser from the location it was stored at.                              *)
(***************************************************************************)
C25_LocalPresence ==
  \A t \in DOMAIN tasks :
    /\ tasks[t].fetches > 0 => join(env.base, tasks[t].filePath) \notin env.fs
    /\ tasks[t].pc = "process"
         => readFileLocation(tasks[t].filePath) = getLocalFilePath(tasks[t].filePath)

(***************************************************************************)
(* The filter option that parseHierarchyFile passes to traverseData,       *)
(* FileProcessor.ts lines 76-78.                                           *)
(***************************************************************************)
filter(key) == key = "name"

(***************************************************************************)
(* traverseData, part_012 lines 11-73, with that filter: the calls of the  *)
(* callback, as (key, value), in the order they are made.                  *)
(***************************************************************************)
RECURSIVE traverseData(_), traverseDataItems(_), traverseDataEntries(_)
traverseData(data) ==
  IF data.type = "string"
  THEN IF ~filter("") THEN <<[key |-> "", value |-> data.value]>> ELSE <<>>
  ELSE IF data.type = "array" THEN traverseDataItems(data.items)
  ELSE IF data.type = "object" THEN traverseDataEntries(data.entries)
  ELSE <<>>

traverseDataItems(items) ==
  IF items = <<>> THEN <<>>
  ELSE traverseData(Head(items)) \o traverseDataItems(Tail(items))

traverseDataEntries(entries) ==
  IF entries = <<>> THEN <<>>
  ELSE LET key == Head(entries).key
           value == Head(entries).value
           calls == IF filter(key) THEN <<>>
                    ELSE IF value.type = "string"
                    THEN <<[key |-> key, value |-> value.value]>>
                    ELSE traverseData(value)
       IN calls \o traverseDataEntries(Tail(entries))

(***************************************************************************)
(* Documents: objects of one or two entries under the keys "name" and      *)
(* "skin", whose values are a string, a number, an array of one string or  *)
(* an object of one entry.  An array is given by its items.                *)
(***************************************************************************)
InitTraverse ==
  LET Keys == {"name", "skin"}
      Leaves == {str("x.png"), [type |-> "number"]}
      Nested == Leaves \cup {[type |-> "array", items |-> <<str("x.png")>>]}
                       \cup {obj(<<entry(k, v)>>) : k \in Keys, v \in Leaves}
      Entries == {entry(k, v) : k \in Keys, v \in Nested}
      Documents == {obj(<<e>>) : e \in Entries}
                     \cup {obj(<<e, f>>) : e \in Entries, f \in Entries}
  IN
  \E data \in Documents :
    /\ config = [loaded |-> FALSE]
    /\ env = [data |-> data]
    /\ localFiles = {}
    /\ InitProgram

(***************************************************************************)
(* A call traverseData(json, callback, {filter}) on the document; the      *)
(* calls of the callback are what the call leaves behind.                  *)
(***************************************************************************)
traverseDataCall ==
  /\ call = "idle"
  /\ call' = "resolved"
  /\ returned' = Append(returned, traverseData(env.data))
  /\ UNCHANGED <<config, env, emitter, localFiles, dm, rm, tasks, logged, prev>>

SpecTraverse == InitTraverse /\ [][traverseDataCall]_vars

(***************************************************************************)
(* C27  TreeWalker filter: called with the predicate key = "name",         *)
(* traverseData invokes the callback exactly for the string values stored  *)
(* under keys named "name", at any nesting depth, and enters a non-string  *)
(* value under such a key (stringsUnderName: those values, every value     *)
(* being entered).                                                         *)
(***************************************************************************)
C27_TreeWalkerFilter ==
  LET RECURSIVE stringsUnderName(_)
      stringsUnderName(entries) ==
        IF entries = <<>> THEN <<>>
        ELSE LET key == Head(entries).key
                 value == Head(entries).value
                 here == IF value.type = "string"
                         THEN IF filter(key)
                              THEN <<[key |-> key, value |-> value.value]>>
                              ELSE <<>>
                         ELSE IF value.type = "object"
                         THEN stringsUnderName(value.entries)
                         ELSE IF value.type = "array"
                         THEN stringsUnderName([n \in DOMAIN value.items |->
                                                  entry("", value.items[n])])
                         ELSE <<>>
             IN here \o stringsUnderName(Tail(entries))
  IN call = "resolved" => returned[1] = stringsUnderName(env.data.entries)

(***************************************************************************)
(* FILE_PATH_PATTERN, constants.ts line 21:                                *)
(*   /^[\w./-\s-]*\.[A-Za-z0-9]{2,5}(\.[A-Za-z0-9]{2,5})?$/i               *)
(* for values without capital letters.  The class before the extension     *)
(* holds the word characters, ".", "/", "-" and white space, so it also    *)
(* absorbs a first extension; the pattern matches exactly the strings of   *)
(* class characters that end with "." and 2 to 5 letters or digits.        *)
(***************************************************************************)
charAt(s, i) == SubSeq(s, i, i)

FILE_PATH_PATTERN_test(value) ==
  LET Alphanumerics ==
        {"a", "b", "c", "d", "e", "f", "g", "h", "i", "j", "k", "l", "m", "n",
         "o", "p", "q", "r", "s", "t", "u", "v", "w", "x", "y", "z",
         "0", "1", "2", "3", "4", "5", "6", "7", "8", "9"}
      PathCharacters == Alphanumerics \cup {"_", ".", "/", "-", " "}
  IN
  /\ \A i \in 1..Len(value) : charAt(value, i) \in PathCharacters
  /\ \E k \in 2..5 :
       /\ Len(value) > k
       /\ charAt(value, Len(value) - k) = "."
       /\ \A j \in (Len(value) - k + 1)..Len(value) :
            charAt(value, j) \in Alphanumerics

(***************************************************************************)
(* scenes/top.ls is {"name": v} for one of the reference values v;         *)
(* ui/menu.ls is {"name": "sub/child.lmat"}; the other files hold {}.      *)
(***************************************************************************)
InitReferences ==
  LET ReferenceContents(v) ==
        [p \in ReferencePaths |->
           IF p = "scenes/top.ls" THEN obj(<<entry("name", str(v))>>)
           ELSE IF p = "ui/menu.ls" THEN obj(<<entry("name", str("sub/child.lmat"))>>)
           ELSE obj(<<>>)]
  IN
  \E v \in ReferenceValues, n \in 1..MaxConcurrency,
     files \in {<<"scenes/top.ls">>, <<"scenes/top.ls", "ui/menu.ls">>},
     local \in {{}, {"scenes/top.ls", "ui/menu.ls"}},
     remote \in {{}, ReferencePaths} :
    /\ config = [concurrency |-> n, maxDepth |-> MaxDepthCfg,
                 skipProcessedFiles |-> TRUE, maxRetries |-> MaxRetriesCfg,
                 retryDelay |-> DefaultRetryDelay]
    /\ env = [baseOK |-> TRUE,
              files |-> files,
              topLevelExt |-> {p \in ReferencePaths : endsWithTopLevelExtension(p)},
              refs |-> [p \in ReferencePaths |-> findReferences(ReferenceContents(v)[p])],
              hasProcessor |-> {p \in ReferencePaths : processorTypeFor(p) # "null"},
              local0 |-> local,
              remoteOK |-> remote,
              parseOK |-> ReferencePaths,
              content |-> ReferenceContents(v)]
    /\ localFiles = local
    /\ InitProgram

SpecReferences == InitReferences /\ [][Next]_vars

(***************************************************************************)
(* C28  Reference predicate: a string value of a parsed file schedules a   *)
(* task if and only if it does not start with "http" or "data:", contains  *)
(* "/" and ".", contains neither "{" nor "}" and matches the reference     *)
(* path pattern (the test of parseHierarchyFile's callback,                *)
(* FileProcessor.ts lines 65-68).                                          *)
(***************************************************************************)
C28_ReferencePredicate ==
  LET Parsed == {t \in DOMAIN tasks : tasks[t].status = "success"
                                       /\ tasks[t].filePath \in env.hasProcessor}
      scheduledBy(t) == {u \in DOMAIN tasks : tasks[u].parent = t}
  IN
  \A t \in Parsed :
    \A v \in stringsOf(env.content[tasks[t].filePath]) :
      (looksLikeAssetPath(v) /\ FILE_PATH_PATTERN_test(v)) <=> scheduledBy(t) # {}

(***************************************************************************)
(* C29  A reference value v found in file f is scheduled as the path       *)
(* join(dirname(f), v).                                                    *)
(***************************************************************************)
C29_ResolvedAgainstDirectory ==
  LET dirname(filePath) ==
        LET lastSlash == lastIndexOf(filePath, "/", Len(filePath)) IN
        IF lastSlash = 0 THEN "." ELSE SubSeq(filePath, 1, lastSlash - 1)
      Parsed == {t \in DOMAIN tasks : tasks[t].status = "success"
                                       /\ tasks[t].filePath \in env.hasProcessor}
      scheduledBy(t) == {u \in DOMAIN tasks : tasks[u].parent = t}
  IN
  \A t \in Parsed :
    \A u \in scheduledBy(t) :
      \E v \in stringsOf(env.content[tasks[t].filePath]) :
        tasks[u].filePath = join(dirname(tasks[t].filePath), v)

(***************************************************************************)
(* String.prototype.replace with a global pattern that matches single      *)
(* characters: every character of s that is in the set is replaced.        *)
(***************************************************************************)
RECURSIVE replaceAll(_, _, _)
replaceAll(s, characters, replacement) ==
  IF s = "" THEN ""
  ELSE (IF charAt(s, 1) \in characters THEN replacement ELSE charAt(s, 1))
         \o replaceAll(slice(s, 2), characters, replacement)

(***************************************************************************)
(* The PathResolver that takes a base path and a remote URL,               *)
(* part_004 lines 188-190: path.replace(/\s/g, "_").                       *)
(***************************************************************************)
normalizePath_replace(path) == replaceAll(path, {" "}, "_")

(***************************************************************************)
(* path.normalize of Node for POSIX paths: the segments between "/",       *)
(* without the empty and the "." segments and with ".." applied.           *)
(***************************************************************************)
normalize(path) ==
  LET RECURSIVE split(_)
      split(s) ==
        LET slashes == {i \in 1..Len(s) : charAt(s, i) = "/"} IN
        IF slashes = {} THEN <<s>>
        ELSE LET i == Min(slashes) IN
             <<SubSeq(s, 1, i - 1)>> \o split(slice(s, i + 1))
      RECURSIVE joinSegments(_)
      joinSegments(segments) ==
        IF segments = <<>> THEN ""
        ELSE IF Len(segments) = 1 THEN segments[1]
        ELSE segments[1] \o "/" \o joinSegments(Tail(segments))
      RECURSIVE normalizeString(_, _, _)
      normalizeString(segments, res, allowAboveRoot) ==
        IF segments = <<>> THEN res
        ELSE LET segment == Head(segments)
                 next == IF segment = "" \/ segment = "." THEN res
                         ELSE IF segment = ".."
                         THEN IF res # <<>> /\ res[Len(res)] # ".."
                              THEN SubSeq(res, 1, Len(res) - 1)
                              ELSE IF allowAboveRoot THEN Append(res, "..") ELSE res
                         ELSE Append(res, segment)
             IN normalizeString(Tail(segments), next, allowAboveRoot)
  IN
  IF path = "" THEN "."
  ELSE LET isAbsolute == charAt(path, 1) = "/"
           trailingSeparator == charAt(path, Len(path)) = "/"
           body == joinSegments(normalizeString(split(path), <<>>, ~isAbsolute))
       IN IF body = ""
          THEN IF isAbsolute THEN "/" ELSE IF trailingSeparator THEN "./" ELSE "."
          ELSE (IF isAbsolute THEN "/" ELSE "") \o body
                 \o (IF trailingSeparator THEN "/" ELSE "")

(***************************************************************************)
(* PathResolver.normalizePath of the resolver, part_016 lines 111-140,     *)
(* where path.sep is "/".                                                  *)
(***************************************************************************)
normalizePath(path) ==
  IF path = "" THEN ""
  ELSE LET sep == "/"
           separated == replaceAll(path, {"\\", "/"}, sep)
           relative == IF startsWith(separated, "." \o sep)
                       THEN slice(separated, 3) ELSE separated
           normalized == normalize(relative)
       IN IF endsWith(normalized, sep)
          THEN SubSeq(normalized, 1, Len(normalized) - 1)
          ELSE normalized

(***************************************************************************)
(* Path spellings: the strings of up to MaxPathLen characters.             *)
(***************************************************************************)
InitNormalize ==
  LET RECURSIVE Spellings(_)
      Spellings(n) ==
        IF n = 0 THEN {""}
        ELSE LET shorter == Spellings(n - 1) IN
             shorter \cup {s \o c : s \in shorter, c \in {"a", " ", ".", "/", "\\"}}
  IN
  \E path \in Spellings(MaxPathLen) :
    /\ config = [loaded |-> FALSE]
    /\ env = [path |-> path]
    /\ localFiles = {}
    /\ InitProgram

(***************************************************************************)
(* A call of normalizePath on the path, for each of the two resolvers.     *)
(***************************************************************************)
normalizePathCall ==
  /\ call = "idle"
  /\ call' = "resolved"
  /\ returned' = Append(returned, [resolver |-> normalizePath(env.path),
                                    replace |-> normalizePath_replace(env.path)])
  /\ UNCHANGED <<config, env, emitter, localFiles, dm, rm, tasks, logged, prev>>

SpecNormalize == InitNormalize /\ [][normalizePathCall]_vars

(***************************************************************************)
(* C30  normalizePath replaces every white space run of the path with a    *)
(* single "_" and changes nothing else (replaceRuns), and is idempotent.   *)
(***************************************************************************)
C30_NormalizeWhitespaceOnly ==
  LET RECURSIVE replaceRuns(_)
      replaceRuns(s) ==
        IF s = "" THEN ""
        ELSE IF charAt(s, 1) = " "
        THEN IF Len(s) > 1 /\ charAt(s, 2) = " "
             THEN replaceRuns(slice(s, 2))
             ELSE "_" \o replaceRuns(slice(s, 2))
        ELSE charAt(s, 1) \o replaceRuns(slice(s, 2))
  IN
  call = "resolved"
    => /\ returned[1].resolver = replaceRuns(env.path)
       /\ returned[1].replace = replaceRuns(env.path)
       /\ normalizePath(returned[1].resolver) = returned[1].resolver
       /\ normalizePath_replace(returned[1].replace) = returned[1].replace

(***************************************************************************)
(* C32  emitEvent terminates for every event type: it returns to its       *)
(* caller without an exception, having called each listener of the event   *)
(* type once and then each listener of the type "all" once.                *)
(***************************************************************************)
C32_EmitEventTerminates ==
  [][emitter'.eventListeners = emitter.eventListeners
       => LET called(eventType) ==
                [i \in 1..Len(emitter.eventListeners[eventType]) |->
                   <<emitter.eventListeners[eventType][i].id, eventType>>]
          IN /\ emitter'.thrown = "none"
             /\ emitter'.emitted = "file_started"
                  => emitter'.calls = called("file_started") \o called("all")]_vars

(***************************************************************************)
(* C31  Event pairing: a terminal event for a path is only emitted after   *)
(* 'file_started', and when parse() has resolved, every task that emitted  *)
(* 'file_started' has emitted exactly one terminal event after it,         *)
(* 'file_completed' if its context ended "success" and 'file_failed' if it *)
(* ended "failed".                                                         *)
(***************************************************************************)
C31_EventPairing ==
  \A t \in DOMAIN tasks :
    /\ tasks[t].events \in {<<>>, <<"file_started">>,
                             <<"file_started", "file_completed">>,
                             <<"file_started", "file_failed">>}
    /\ (Resolved /\ tasks[t].events # <<>>)
         => tasks[t].events =
              <<"file_started", IF tasks[t].status = "success"
                                THEN "file_completed" ELSE "file_failed">>

(***************************************************************************)
(* C33  Count consistency: when a parse() call that was not aborted        *)
(* resolves, successFiles + failedFiles = totalFiles and successFiles is   *)
(* the number of entry files whose context has status "success".           *)
(***************************************************************************)
C33_CountConsistency ==
  (Resolved /\ NoEntrySkippedByAbort)
    => /\ rm.result.successFiles + rm.result.failedFiles = rm.result.totalFiles
       /\ rm.result.successFiles =
            Cardinality({i \in 1..Len(rm.result.topLevelFiles) :
                           contextStatus(rm.result.topLevelFiles[i]) = "success"})

(***************************************************************************)
(* The built-in 'test' environment, ENVIRONMENT_CONFIGS.test: concurrency  *)
(* 1 and skipProcessedFiles = false, with every I/O operation completing.  *)
(***************************************************************************)
TestConcurrency == 1

InitTest == InitNoSkip /\ config.concurrency = TestConcurrency

SpecTest == InitTest /\ [][Next]_vars /\ WF_vars(IOCompletes)

(***************************************************************************)
(* C36  With skipProcessedFiles = false parse() still terminates, also on  *)
(* a cyclic reference graph: no context is created at a depth greater than *)
(* maxDepth, and once the call has settled the number of contexts created  *)
(* for a path is at most the number of reference chains of length          *)
(* <= maxDepth that lead from an entry file to it (chains).                *)
(***************************************************************************)
C36_DepthBoundsRecursion ==
  /\ [](LET RECURSIVE chains(_, _, _)
            chains(from, to, length) ==
              LET RECURSIVE sum(_)
                  sum(references) ==
                    IF references = <<>> THEN 0
                    ELSE chains(Head(references), to, length - 1) + sum(Tail(references))
              IN (IF from = to THEN 1 ELSE 0)
                   + (IF length = 0 THEN 0 ELSE sum(env.refs[from]))
            RECURSIVE fromEntries(_, _)
            fromEntries(entries, to) ==
              IF entries = <<>> THEN 0
              ELSE chains(Head(entries), to, config.maxDepth) + fromEntries(Tail(entries), to)
            contexts(p) ==
              {t \in DOMAIN tasks : tasks[t].filePath = p /\ tasks[t].status # "none"}
        IN /\ \A t \in DOMAIN tasks :
                tasks[t].status # "none" => tasks[t].depth <= config.maxDepth
           /\ call \in {"resolved", "rejected"}
                => \A p \in Paths :
                     Cardinality(contexts(p)) <= fromEntries(rm.result.topLevelFiles, p))
  /\ (call \in {"collecting", "processing"}) ~> (call \in {"resolved", "rejected"})

C36_Witness ==
  /\ Resolved /\ NoEntrySkippedByAbort
  /\ ~config.skipProcessedFiles
  /\ env.refs["a"] = <<"b">> /\ env.refs["b"] = <<"a">>
  /\ config.maxDepth = 2
  /\ \E t, u, v \in DOMAIN tasks :
       /\ tasks[t].filePath = "a" /\ tasks[t].depth = 0 /\ tasks[t].status = "success"
       /\ tasks[u].filePath = "a" /\ tasks[u].depth = 2 /\ tasks[u].status = "success"
       /\ tasks[v].filePath = "b" /\ tasks[v].depth = 3
       /\ tasks[v].outcome = "MAX_DEPTH_EXCEEDED" /\ tasks[v].status = "none"

(***************************************************************************)
(* The holder of the manager calls reset() and parse() while a parse()     *)
(* call is in progress.                                                    *)
(***************************************************************************)
resetWhileProcessing == InProgress /\ rm.isProcessing /\ reset

SpecReset == InitCalls /\ [][Next \/ resetWhileProcessing \/ parseWhileProcessing]_vars

(***************************************************************************)
(* C34  At most one parse() call is executing on a manager: whatever       *)
(* parse(), abort() and reset() calls are made, no parse() call passes the *)
(* isProcessing guard while an earlier call is in progress, and once a     *)
(* second call has started no task of the first call writes into the       *)
(* result, processedFiles or isProcessing.                                 *)
(***************************************************************************)
C34_SingleActiveRun ==
  [][LET started(r) == {i \in DOMAIN r : r[i].op = "parse" /\ r[i].outcome = "started"}
     IN /\ InProgress => started(returned') = {}
        /\ (started(returned) # {} /\ tasks' # tasks)
             => /\ rm'.result = rm.result
                /\ rm'.processedFiles = rm.processedFiles
                /\ rm'.isProcessing = rm.isProcessing]_vars

(***************************************************************************)
(* The DownloadManager on its own: downloadFile is called for the distinct *)
(* paths 1..MaxDownloads by callers that do not wait for one another.      *)
(* tasks[p].pc is the position of the call for path p: "idle" (not yet     *)
(* called), "checked" (waitForConcurrencySlot has returned and the         *)
(* continuation of 'await this.waitForConcurrencySlot()' is in the         *)
(* microtask queue), "slot" (in sleep(100)), "fetch" (in performDownload)  *)
(* and "done".                                                             *)
(***************************************************************************)
InitDownloads ==
  /\ config = [maxRetries |-> 0, retryDelay |-> DefaultRetryDelay]
  /\ \E remoteOK \in SUBSET (1..MaxDownloads) :
       /\ Cardinality((1..MaxDownloads) \ remoteOK) <= MaxFaults
       /\ env = [remoteOK |-> remoteOK]
  /\ localFiles = {}
  /\ prev = {}
  /\ returned = <<>>
  /\ emitter = newEmitter
  /\ dm = newDownloadManager
  /\ rm = newResourceManager
  /\ call = "idle"
  /\ logged = {}
  /\ tasks = [p \in 1..MaxDownloads |-> [filePath |-> p, pc |-> "idle"]]

(***************************************************************************)
(* One step of the DownloadManager.  A call of downloadFile (lines 54-69)  *)
(* runs createDownloadTask up to its first await: the loop condition of    *)
(* waitForConcurrencySlot (line 181) is evaluated in the call, the         *)
(* insertion into activeDownloads (line 88) is in the continuation.        *)
(* Timers and responses are handled when the microtask queue is empty.     *)
(***************************************************************************)
NextDownloads ==
  \E p \in DOMAIN tasks :
    LET microtasks == {q \in DOMAIN tasks : tasks[q].pc = "checked"} IN
    /\ \/ /\ tasks[p].pc = "idle"
          /\ downloadFile(dm, p) \in {"fetch", "slot"}
          /\ tasks' = [tasks EXCEPT ![p].pc = IF slotFree(dm) THEN "checked" ELSE "slot"]
          /\ dm' = [dm EXCEPT !.downloadQueue = @ \cup {p}]
       \/ /\ tasks[p].pc = "checked"
          /\ tasks' = [tasks EXCEPT ![p].pc = "fetch"]
          /\ dm' = [dm EXCEPT !.activeDownloads = @ \cup {p}]
       \/ /\ tasks[p].pc = "slot"
          /\ microtasks = {}
          /\ slotFree(dm)
          /\ tasks' = [tasks EXCEPT ![p].pc = "checked"]
          /\ dm' = dm
       \/ /\ tasks[p].pc = "fetch"
          /\ microtasks = {}
          /\ tasks' = [tasks EXCEPT ![p].pc = "done"]
          /\ dm' = [dm EXCEPT !.cache = IF p \in env.remoteOK THEN @ \cup {p} ELSE @,
                              !.downloadQueue = @ \ {p},
                              !.activeDownloads = @ \ {p}]
    /\ UNCHANGED <<config, env, emitter, localFiles, rm, call, logged, prev, returned>>

SpecDownloads == InitDownloads /\ [][NextDownloads]_vars

(***************************************************************************)
(* C35  The number of paths in activeDownloads never exceeds               *)
(* maxConcurrentDownloads, whatever the interleaving of downloadFile calls *)
(* for distinct paths.                                                     *)
(***************************************************************************)
C35_DownloadSlotCap ==
  Cardinality(dm.activeDownloads) <= maxConcurrentDownloads

(***************************************************************************)
(* C37  In every reachable state of a ResourceManager, processedCount <=   *)
(* totalCount whenever totalCount > 0, so getProgress() is between 0 and   *)
(* 100.  getStatus is lines 398-412 and getProgress lines 424-429 of       *)
(* part_008; the comparison with 100 is made on the numerator so that no   *)
(* division is needed.                                                     *)
(***************************************************************************)
C37_ProgressBound ==
  LET getStatus == [isProcessing |-> rm.isProcessing,
                    processedCount |-> Cardinality(rm.processedFiles),
                    totalCount |-> rm.result.totalFiles,
                    successCount |-> rm.result.successFiles,
                    failedCount |-> rm.result.failedFiles]
      progressTimesTotal ==
        IF rm.result.totalFiles = 0 THEN 0 ELSE Cardinality(rm.processedFiles) * 100
  IN /\ getStatus.totalCount > 0 => getStatus.processedCount <= getStatus.totalCount
     /\ progressTimesTotal >= 0
     /\ progressTimesTotal <= 100 * rm.result.totalFiles

(***************************************************************************)
(* ProcessorFactory, part_015 lines 42-52, held in rm.processorFactory     *)
(* (part_008 line 31).  processors maps the registered type names to their *)
(* registrations; extensionMap maps an extension to the list of type       *)
(* names, the empty list for an extension without key.  Of the built-in           *)
(* processors the model has 'json' with '.ls' and 'text' with '.txt'.      *)
(* returned is the list of calls made.                                     *)
(***************************************************************************)
JsonPriority == 100
TextPriority == 10

InitRegistry ==
  /\ config = [loaded |-> FALSE]
  /\ env = [types |-> {"json", "text", "custom"},
            extensions |-> {".ls", ".txt"}]
  /\ localFiles = {}
  /\ emitter = newEmitter
  /\ dm = newDownloadManager
  /\ rm = [processorFactory |->
             [processors |->
                [type \in {"json", "text"} |->
                   IF type = "json"
                   THEN [supportedExtensions |-> <<".ls">>, priority |-> JsonPriority]
                   ELSE [supportedExtensions |-> <<".txt">>, priority |-> TextPriority]],
              extensionMap |-> [extension \in {".ls", ".txt"} |->
                                  IF extension = ".ls" THEN <<"json">> ELSE <<"text">>]]]
  /\ tasks = <<>>
  /\ call = "idle"
  /\ logged = {}
  /\ prev = {}
  /\ returned = <<>>

(***************************************************************************)
(* ProcessorFactory.registerProcessor, lines 228-258, for a registration   *)
(* that validateRegistration accepts: the type is pushed onto the list of  *)
(* each of its extensions and the list is sorted by descending priority    *)
(* (Array.prototype.sort is stable).                                       *)
(***************************************************************************)
registerProcessor ==
  /\ Len(returned) < MaxRegistryCalls
  /\ \E processorType \in {"json", "custom"},
        extensions \in {<<".ls">>, <<".txt">>, <<".ls", ".txt">>},
        priority \in {0, JsonPriority + 1} :
       LET registration == [supportedExtensions |-> extensions,
                            priority |-> priority]
           processors ==
             [type \in DOMAIN rm.processorFactory.processors \cup {processorType} |->
                IF type = processorType THEN registration
                ELSE rm.processorFactory.processors[type]]
           priorityOf(type) == IF type \notin DOMAIN processors THEN 0
                               ELSE processors[type].priority
           RECURSIVE sort(_)
           sort(types) ==
             IF types = <<>> THEN <<>>
             ELSE LET first == CHOOSE i \in 1..Len(types) :
                                 /\ \A j \in 1..Len(types) :
                                      priorityOf(types[j]) <= priorityOf(types[i])
                                 /\ \A j \in 1..(i - 1) :
                                      priorityOf(types[j]) < priorityOf(types[i])
                  IN <<types[first]>>
                       \o sort(SubSeq(types, 1, first - 1) \o SubSeq(types, first + 1, Len(types)))
       IN /\ rm' = [rm EXCEPT
                      !.processorFactory.processors = processors,
                      !.processorFactory.extensionMap =
                         [extension \in DOMAIN @ |->
                            IF extension \in SeqSet(extensions)
                            THEN sort(Append(@[extension], processorType))
                            ELSE @[extension]]]
          /\ returned' = Append(returned, [op |-> "registerProcessor",
                                           processorType |-> processorType,
                                           registration |-> registration])
  /\ UNCHANGED <<config, env, emitter, localFiles, dm, tasks, call, logged, prev>>

(***************************************************************************)
(* ProcessorFactory.unregisterProcessor, lines 263-289: the first          *)
(* occurrence of the type is removed from the list of each extension of    *)
(* its present registration.                                               *)
(***************************************************************************)
unregisterProcessor ==
  /\ Len(returned) < MaxRegistryCalls
  /\ \E processorType \in {"json", "custom"} :
       LET processors == rm.processorFactory.processors
           splice(types) ==
             IF processorType \notin SeqSet(types) THEN types
             ELSE LET index == Min({i \in 1..Len(types) : types[i] = processorType})
                  IN SubSeq(types, 1, index - 1) \o SubSeq(types, index + 1, Len(types))
       IN /\ rm' = IF processorType \notin DOMAIN processors THEN rm
                   ELSE [rm EXCEPT
                           !.processorFactory.processors =
                              [type \in DOMAIN processors \ {processorType} |-> processors[type]],
                           !.processorFactory.extensionMap =
                              [extension \in DOMAIN @ |->
                                 IF extension \in SeqSet(processors[processorType].supportedExtensions)
                                 THEN splice(@[extension])
                                 ELSE @[extension]]]
          /\ returned' = Append(returned, [op |-> "unregisterProcessor",
                                           processorType |-> processorType])
  /\ UNCHANGED <<config, env, emitter, localFiles, dm, tasks, call, logged, prev>>

SpecRegistry == InitRegistry /\ [][registerProcessor \/ unregisterProcessor]_vars

(***************************************************************************)
(* C38  After any sequence of registerProcessor and unregisterProcessor    *)
(* calls every type listed in extensionMap for an extension is in the      *)
(* processors map and lists that extension, each type appears at most once *)
(* per extension, and so createProcessor, called by getProcessorForFile    *)
(* with the first type of the list (lines 302-318), finds a registration.  *)
(***************************************************************************)
C38_RegistryConsistency ==
  LET factory == rm.processorFactory IN
  \A extension \in DOMAIN factory.extensionMap :
    LET processorTypes == factory.extensionMap[extension] IN
    /\ \A i \in 1..Len(processorTypes) :
         /\ processorTypes[i] \in DOMAIN factory.processors
         /\ extension \in SeqSet(factory.processors[processorTypes[i]].supportedExtensions)
         /\ \A j \in 1..Len(processorTypes) : processorTypes[j] = processorTypes[i] => j = i
    /\ processorTypes # <<>> => processorTypes[1] \in DOMAIN factory.processors

(***************************************************************************)
(* A ConfigManager on its own: config is ConfigManager.config (part_009    *)
(* line 27), which starts as a valid configuration made of the defaults;   *)
(* returned lists how the updateConfig calls ended.                        *)
(***************************************************************************)
InitUpdate ==
  /\ config = [resource |-> [concurrency |-> DefaultConcurrency,
                             maxDepth |-> DefaultMaxDepth,
                             skipProcessedFiles |-> TRUE],
               downloader |-> [maxRetries |-> DefaultMaxRetries,
                               retryDelay |-> DefaultRetryDelay]]
  /\ env = [baseOK |-> TRUE]
  /\ localFiles = {}
  /\ emitter = newEmitter
  /\ dm = newDownloadManager
  /\ rm = newResourceManager
  /\ tasks = <<>>
  /\ call = "idle"
  /\ logged = {}
  /\ prev = {}
  /\ returned = <<>>

(***************************************************************************)
(* ConfigManager.updateConfig, lines 435-441, with mergeConfigs, lines     *)
(* 622-639, and validateConfig, lines 302-326: a key of updates that is    *)
(* absent keeps the present value.                                         *)
(***************************************************************************)
updateConfig ==
  /\ Len(returned) < MaxCalls
  /\ \E updates \in [concurrency : {absent, number(0), number(1),
                                     number(MaxConcurrencyAllowed + 1)},
                      maxDepth : {absent, number(0 - 1), number(1)},
                      maxRetries : {absent, number(0 - 1), number(MaxRetriesCfg)}] :
       LET valueOr(value, present) == IF value.type = "absent" THEN present ELSE value.value
           mergeConfigs ==
             [resource |-> [config.resource EXCEPT
                              !.concurrency = valueOr(updates.concurrency, @),
                              !.maxDepth = valueOr(updates.maxDepth, @)],
              downloader |-> [config.downloader EXCEPT
                                !.maxRetries = valueOr(updates.maxRetries, @)]]
           errors == validateResourceConfig(mergeConfigs.resource)
                       \cup validateDownloaderConfig(mergeConfigs.downloader)
       IN /\ config' = mergeConfigs
          /\ returned' = Append(returned,
                                IF errors # {} THEN rejection("updateConfig", "Error")
                                ELSE [rejection("updateConfig", "none")
                                        EXCEPT !.outcome = "resolved"])
  /\ UNCHANGED <<env, emitter, localFiles, dm, rm, tasks, call, logged, prev>>

SpecUpdate == InitUpdate /\ [][updateConfig]_vars

(***************************************************************************)
(* C39  updateConfig is atomic on error: when the merged configuration     *)
(* fails validation the call throws and getConfig() (lines 407-409)        *)
(* returns what it returned before the call, and the configuration that    *)
(* getConfig() returns never fails validation.                             *)
(***************************************************************************)
C39_UpdateConfigAtomic ==
  [][LET getConfig(c) == c
         thrown == returned'[Len(returned')].outcome = "rejected"
     IN /\ thrown => getConfig(config') = getConfig(config)
        /\ validateResourceConfig(getConfig(config').resource)
             \cup validateDownloaderConfig(getConfig(config').downloader) = {}]_vars

====
